---- MODULE Spec2Model ----
(***************************************************************************)
(* Model of the hexapod locomotion core (src/hexapod_rpi).                 *)
(*                                                                         *)
(* Numbers.  Lengths are integers counting 1/Unit mm (Unit = 100), joint   *)
(* angles computed by the solver are whole degrees, angles written to the  *)
(* servo controller are hundredths of a degree, pulse widths are whole     *)
(* microseconds.  Python floats are modelled in this fixed point; division *)
(* rounds down.  The gait phase (cycle_progress) and the factors of its    *)
(* increment are Python floats bit for bit (see the float section).        *)
(*                                                                         *)
(* Objects.  Every Python object is a record; a handler is an operator     *)
(* from a machine record m (all objects reachable from the handler) to the *)
(* machine record after the call.  m.exc names the exception that is       *)
(* propagating ("None" when there is none); every operator is the identity *)
(* on a machine in which an exception propagates.  m.ret is the value the  *)
(* last call returned, m.log the write_leg_servos calls made since the     *)
(* operation began, m.sets the number of set_raw_offsets calls made since  *)
(* then and m.writes the number of writes of the configuration file.       *)
(***************************************************************************)
EXTENDS Integers, Sequences, FiniteSets, TLC

VARIABLES kinematics,        \* HexapodKinematics fields
          servo_controller,  \* HexapodServoController fields
          current_points,    \* the list handed to the state controllers
          shared,            \* TRUE: that list is kinematics.current_points itself
          standing_state,    \* StandingState fields
          sleep_state,       \* SleepState fields
          calibration_state, \* CalibrationState fields
          walking_state,     \* WalkingState fields
          attacks_state,     \* AttacksState fields
          controller,        \* HexapodController fields
          storage,           \* HexapodStorage.data['offsets']
          storage_data,      \* the other sections of HexapodStorage.data
          call               \* last operation: name, return value, exception, servo log

vars == <<kinematics, servo_controller, current_points, shared, standing_state,
          sleep_state, calibration_state, walking_state, attacks_state, controller,
          storage, storage_data, call>>

-----------------------------------------------------------------------------
(* config.py                                                               *)

Unit == 100
Legs == 0 .. 5
NoAngle == -1

COXA_LENGTH == 4600
FEMUR_LENGTH == 10800
TIBIA_LENGTH == 20000
LEG_LENGTH == COXA_LENGTH + FEMUR_LENGTH + TIBIA_LENGTH
BASE_OFFSET == [x |-> 90, y |-> 50, z |-> -10]
DISTANCE_FROM_CENTER == 17300
DISTANCE_FROM_GROUND_BASE == -6000
LIFT_HEIGHT == 13000
LAND_HEIGHT == 7000
STRIDE_OVERSHOOT == 1000
POINTS == 1000
\* per leg, leg i at position i + 1
STRIDE_MULTIPLIER == <<1, 1, 1, -1, -1, -1>>
ROTATION_MULTIPLIER == <<-1, 0, 1, -1, 0, 1>>
\* class Gait
Gaits == {"TRI", "RIPPLE", "WAVE", "QUAD", "BI", "HOP"}

-----------------------------------------------------------------------------
(* utils/vectors.py, utils/helpers.py                                      *)

Abs(v) == IF v < 0 THEN -v ELSE v
Min(a, b) == IF a < b THEN a ELSE b
Max(a, b) == IF a > b THEN a ELSE b

\* Sequencing of statements: v is evaluated once, then F is applied to its
\* value (a statement's effect happens once, however often the statements
\* after it read the result).
Then(v, F(_)) == CHOOSE r \in {F(x) : x \in {v}} : TRUE

Vector2(x, y) == [x |-> x, y |-> y]
Vector3(x, y, z) == [x |-> x, y |-> y, z |-> z]
Origin == Vector3(0, 0, 0)

\* int(v) of a length in mm: truncation toward zero
int(v) == IF v >= 0 THEN v \div Unit ELSE -((-v) \div Unit)

constrain(value, min_val, max_val) == Max(min_val, Min(max_val, value))

\* scalar lerp a * (1.0 - f) + b * f, f given in hundredths
lerp(a, b, f) == (a * (100 - f) + b * f) \div 100

lerp3(a, b, f) == Vector3(lerp(a.x, b.x, f), lerp(a.y, b.y, f), lerp(a.z, b.z, f))

RECURSIVE SqrtSearch(_, _, _)
SqrtSearch(n, lo, hi) ==
    IF lo >= hi THEN lo
    ELSE Then((lo + hi + 1) \div 2, LAMBDA mid :
             IF mid * mid <= n THEN SqrtSearch(n, mid, hi)
                               ELSE SqrtSearch(n, lo, mid - 1))

\* math.sqrt, rounded down to the fixed-point grid
sqrt(n) == Then(n, LAMBDA v : SqrtSearch(v, 0, 46340))

\* a.distance_to(b) <= r, computed without leaving the 32-bit range
distance_leq(a, b, r) ==
    LET dx == Abs(a.x - b.x)
        dy == Abs(a.y - b.y)
        dz == Abs(a.z - b.z)
    IN  /\ dx <= r /\ dy <= r /\ dz <= r
        /\ dy * dy <= r * r - dx * dx
        /\ dz * dz <= r * r - dx * dx - dy * dy

\* a.distance_to(b) < r
distance_lt(a, b, r) ==
    LET dx == Abs(a.x - b.x)
        dy == Abs(a.y - b.y)
        dz == Abs(a.z - b.z)
    IN  /\ dx < r /\ dy < r /\ dz < r
        /\ dy * dy < r * r - dx * dx
        /\ dz * dz < r * r - dx * dx - dy * dy

\* cos(d degrees) * 10000 for d = 0 .. 180
CosTable == <<
    10000, 9998, 9994, 9986, 9976, 9962, 9945, 9925, 9903, 9877, 9848, 9816,
    9781, 9744, 9703, 9659, 9613, 9563, 9511, 9455, 9397, 9336, 9272, 9205,
    9135, 9063, 8988, 8910, 8829, 8746, 8660, 8572, 8480, 8387, 8290, 8192,
    8090, 7986, 7880, 7771, 7660, 7547, 7431, 7314, 7193, 7071, 6947, 6820,
    6691, 6561, 6428, 6293, 6157, 6018, 5878, 5736, 5592, 5446, 5299, 5150,
    5000, 4848, 4695, 4540, 4384, 4226, 4067, 3907, 3746, 3584, 3420, 3256,
    3090, 2924, 2756, 2588, 2419, 2250, 2079, 1908, 1736, 1564, 1392, 1219,
    1045, 872, 698, 523, 349, 175, 0, -175, -349, -523, -698, -872, -1045,
    -1219, -1392, -1564, -1736, -1908, -2079, -2250, -2419, -2588, -2756,
    -2924, -3090, -3256, -3420, -3584, -3746, -3907, -4067, -4226, -4384,
    -4540, -4695, -4848, -5000, -5150, -5299, -5446, -5592, -5736, -5878,
    -6018, -6157, -6293, -6428, -6561, -6691, -6820, -6947, -7071, -7193,
    -7314, -7431, -7547, -7660, -7771, -7880, -7986, -8090, -8192, -8290,
    -8387, -8480, -8572, -8660, -8746, -8829, -8910, -8988, -9063, -9135,
    -9205, -9272, -9336, -9397, -9455, -9511, -9563, -9613, -9659, -9703,
    -9744, -9781, -9816, -9848, -9877, -9903, -9925, -9945, -9962, -9976,
    -9986, -9994, -9998, -10000 >>

RECURSIVE AcosSearch(_, _, _)
AcosSearch(c, lo, hi) ==
    IF lo >= hi THEN lo
    ELSE Then((lo + hi) \div 2, LAMBDA mid :
             IF CosTable[mid + 1] <= c THEN AcosSearch(c, lo, mid)
                                       ELSE AcosSearch(c, mid + 1, hi))

\* math.acos in whole degrees; c is the cosine times 10000, in -10000 .. 10000
acos(c) == Then(c, LAMBDA v : AcosSearch(v, 0, 180))

\* math.atan2(y, x) in whole degrees
atan2(y, x) ==
    IF x = 0 /\ y = 0 THEN 0
    ELSE Then(sqrt(x * x + y * y), LAMBDA r :
         Then(IF r = 0 THEN 0 ELSE acos(constrain((x * 10000) \div r, -10000, 10000)),
              LAMBDA d : IF y >= 0 THEN d ELSE -d))

\* angle in whole degrees -> pulse width in microseconds (int() truncates)
angle_to_microseconds(angle) == 500 + (constrain(angle, 0, 180) * 2000) \div 180

\* pulse width -> angle in hundredths of a degree
microseconds_to_angle(microseconds) == (constrain(microseconds, 500, 2500) - 500) * 9

RECURSIVE Gcd(_, _)
Gcd(a, b) == IF b = 0 THEN a ELSE Then(a % b, LAMBDA r : Gcd(b, r))

RECURSIVE Pow(_, _)
Pow(b, e) == IF e = 0 THEN 1 ELSE b * Pow(b, e - 1)

RECURSIVE binomial_loop(_, _, _, _)
binomial_loop(n, k, i, result) ==
    IF i > k THEN result
    ELSE binomial_loop(n, k, i + 1, (result * (n - (k - i))) \div i)

binomial_coefficient(n, k) == binomial_loop(n, k, 1, 1)

RECURSIVE BernsteinSum(_, _, _, _, _)
\* sum over i of C(n-1, i) * (td-tn)^(n-1-i) * tn^i * c[i], c 1-indexed
BernsteinSum(c, num_points, tn, td, i) ==
    IF i >= num_points THEN 0
    ELSE binomial_coefficient(num_points - 1, i)
            * Pow(td - tn, num_points - 1 - i) * Pow(tn, i) * c[i + 1]
         + BernsteinSum(c, num_points, tn, td, i + 1)

\* get_point_on_bezier_curve whose loop stops one control point early
get_point_on_bezier_curve_short(pts, num_points, tnum, tden) ==
    LET g  == Gcd(tden, tnum)
        tn == tnum \div g
        td == tden \div g
        d  == Pow(td, num_points - 1)
        xs == [i \in 1 .. num_points |-> IF i = num_points THEN 0 ELSE pts[i].x]
        ys == [i \in 1 .. num_points |-> IF i = num_points THEN 0 ELSE pts[i].y]
        zs == [i \in 1 .. num_points |-> IF i = num_points THEN 0 ELSE pts[i].z]
    IN  Vector3(BernsteinSum(xs, num_points, tn, td, 0) \div d,
                BernsteinSum(ys, num_points, tn, td, 0) \div d,
                BernsteinSum(zs, num_points, tn, td, 0) \div d)

\* the point at parameter t = tnum / tden on the Bezier curve through the
\* first num_points control points (Bernstein form)
get_point_on_bezier_curve(pts, num_points, tnum, tden) ==
    LET g  == Gcd(tden, tnum)
        tn == tnum \div g
        td == tden \div g
        d  == Pow(td, num_points - 1)
        xs == [i \in 1 .. num_points |-> pts[i].x]
        ys == [i \in 1 .. num_points |-> pts[i].y]
        zs == [i \in 1 .. num_points |-> pts[i].z]
    IN  Vector3(BernsteinSum(xs, num_points, tn, td, 0) \div d,
                BernsteinSum(ys, num_points, tn, td, 0) \div d,
                BernsteinSum(zs, num_points, tn, td, 0) \div d)

\* get_point_on_bezier_curve for a list of Vector2: the same loop without
\* the z component
get_point_on_bezier_curve_2d(pts, num_points, tnum, tden) ==
    LET p == get_point_on_bezier_curve(
                 [i \in 1 .. num_points |-> [x |-> pts[i].x, y |-> pts[i].y, z |-> 0]],
                 num_points, tnum, tden)
    IN  [x |-> p.x, y |-> p.y]

-----------------------------------------------------------------------------
(* Python float (IEEE 754 binary64) arithmetic, for the gait phase          *)
(*                                                                         *)
(* A non-negative float is a natural number counting 2^-FracBits, written  *)
(* as its digits in base Base, least significant first, without leading    *)
(* zero digits (<< >> is 0.0).  Every operation computes the exact result  *)
(* and rounds it to Precision significant bits, ties to even.  Floats      *)
(* below 2^(Precision - FracBits) and above 2^1023 are outside the model.  *)

DigitBits == 13
Base == 2 ^ DigitBits
FracDigits == 7
FracBits == FracDigits * DigitBits
Precision == 53

Digit(a, i) == IF i <= Len(a) THEN a[i] ELSE 0

RECURSIVE BigNorm(_)
BigNorm(a) ==
    IF a = << >> THEN a
    ELSE IF a[Len(a)] = 0 THEN BigNorm(SubSeq(a, 1, Len(a) - 1))
    ELSE a

RECURSIVE BigOfInt(_)
BigOfInt(n) == IF n = 0 THEN << >> ELSE <<n % Base>> \o BigOfInt(n \div Base)

RECURSIVE BigToInt(_)
BigToInt(a) == IF a = << >> THEN 0 ELSE a[1] + Base * BigToInt(Tail(a))

RECURSIVE BigAddFrom(_, _, _, _)
BigAddFrom(a, b, i, carry) ==
    IF i > Len(a) /\ i > Len(b) THEN (IF carry = 0 THEN << >> ELSE <<carry>>)
    ELSE Then(Digit(a, i) + Digit(b, i) + carry, LAMBDA s :
             <<s % Base>> \o BigAddFrom(a, b, i + 1, s \div Base))

BigAdd(a, b) == BigAddFrom(a, b, 1, 0)

RECURSIVE BigSubFrom(_, _, _, _)
BigSubFrom(a, b, i, borrow) ==
    IF i > Len(a) THEN << >>
    ELSE Then(a[i] - Digit(b, i) - borrow, LAMBDA s :
             IF s < 0 THEN <<s + Base>> \o BigSubFrom(a, b, i + 1, 1)
                      ELSE <<s>> \o BigSubFrom(a, b, i + 1, 0))

\* a - b for a >= b
BigSub(a, b) == BigNorm(BigSubFrom(a, b, 1, 0))

RECURSIVE BigCmpFrom(_, _, _)
BigCmpFrom(a, b, i) ==
    IF i = 0 THEN 0
    ELSE IF a[i] > b[i] THEN 1
    ELSE IF a[i] < b[i] THEN -1
    ELSE BigCmpFrom(a, b, i - 1)

\* -1, 0, 1 as a < b, a = b, a > b
BigCmp(a, b) ==
    IF Len(a) > Len(b) THEN 1
    ELSE IF Len(a) < Len(b) THEN -1
    ELSE BigCmpFrom(a, b, Len(a))

RECURSIVE ColumnSum(_, _, _, _)
ColumnSum(a, b, k, i) ==
    IF i > Len(a) \/ i > k THEN 0
    ELSE (IF k + 1 - i <= Len(b) THEN a[i] * b[k + 1 - i] ELSE 0) + ColumnSum(a, b, k, i + 1)

RECURSIVE BigMulFrom(_, _, _, _)
BigMulFrom(a, b, k, carry) ==
    IF k > Len(a) + Len(b) THEN << >>
    ELSE Then(ColumnSum(a, b, k, 1) + carry, LAMBDA s :
             <<s % Base>> \o BigMulFrom(a, b, k + 1, s \div Base))

BigMul(a, b) == BigNorm(BigMulFrom(a, b, 1, 0))

RECURSIVE BigScaleFrom(_, _, _, _)
BigScaleFrom(a, f, i, carry) ==
    IF i > Len(a) THEN BigOfInt(carry)
    ELSE Then(a[i] * f + carry, LAMBDA s :
             <<s % Base>> \o BigScaleFrom(a, f, i + 1, s \div Base))

\* a * f for 0 <= f <= Base
BigScale(a, f) == BigNorm(BigScaleFrom(a, f, 1, 0))

\* a * 2^k
BigShl(a, k) ==
    IF a = << >> THEN a
    ELSE [i \in 1 .. (k \div DigitBits) |-> 0] \o BigScale(a, 2 ^ (k % DigitBits))

\* a \div 2^k
BigShr(a, k) ==
    LET q == k \div DigitBits
        r == k % DigitBits
        d == IF q >= Len(a) THEN << >> ELSE SubSeq(a, q + 1, Len(a))
    IN  BigNorm([i \in 1 .. Len(d) |->
                    (d[i] \div 2 ^ r) + (Digit(d, i + 1) % 2 ^ r) * 2 ^ (DigitBits - r)])

RECURSIVE BitLen(_)
BitLen(n) == IF n = 0 THEN 0 ELSE 1 + BitLen(n \div 2)

BigBitLen(a) == IF a = << >> THEN 0 ELSE (Len(a) - 1) * DigitBits + BitLen(a[Len(a)])

\* bit k of a (bit 0 is the least significant)
BigBit(a, k) == (Digit(a, k \div DigitBits + 1) \div 2 ^ (k % DigitBits)) % 2

\* a % 2^k = 0
BigLowZero(a, k) ==
    /\ \A i \in 1 .. Min(k \div DigitBits, Len(a)) : a[i] = 0
    /\ Digit(a, k \div DigitBits + 1) % 2 ^ (k % DigitBits) = 0

\* a rounded to Precision significant bits, to nearest, ties to even; inexact
\* says that bits have already been dropped below a
RoundSig(a, inexact) ==
    Then(BigBitLen(a) - Precision, LAMBDA k :
        IF k <= 0 THEN a
        ELSE Then(BigShr(a, k), LAMBDA q :
             LET half == BigBit(a, k - 1) = 1
                 rest == inexact \/ ~BigLowZero(a, k - 1)
                 up   == half /\ (rest \/ BigBit(q, 0) = 1)
             IN  BigShl(IF up THEN BigAdd(q, <<1>>) ELSE q, k)))

\* the float of a whole number
Float(n) == BigShl(BigOfInt(n), FracBits)

\* float + float, float - float (a >= b), float * float
fadd(a, b) == RoundSig(BigAdd(a, b), FALSE)
fsub(a, b) == RoundSig(BigSub(a, b), FALSE)
fmul(a, b) == BigShr(RoundSig(BigMul(a, b), FALSE), FracBits)

RECURSIVE SqrtDigit(_, _, _, _)
\* the largest d in lo .. hi with (twice * Base + d) * d <= rem
SqrtDigit(twice, rem, lo, hi) ==
    IF lo >= hi THEN lo
    ELSE Then((lo + hi + 1) \div 2, LAMBDA mid :
             IF BigCmp(BigScale(<<mid>> \o twice, mid), rem) <= 0
             THEN SqrtDigit(twice, rem, mid, hi)
             ELSE SqrtDigit(twice, rem, lo, mid - 1))

RECURSIVE BigSqrtFrom(_, _, _, _)
\* long-hand square root: root of the digit pairs above pair p, what they
\* leave over in rem; each pair of digits of n gives one digit of the root
BigSqrtFrom(n, root, rem, p) ==
    IF p < 0 THEN [root |-> root, rem |-> rem]
    ELSE Then(BigNorm(<<n[2 * p + 1], Digit(n, 2 * p + 2)>> \o rem), LAMBDA r :
         Then(BigScale(root, 2), LAMBDA twice :
         Then(SqrtDigit(twice, r, 0, Base - 1), LAMBDA d :
             BigSqrtFrom(n, BigNorm(<<d>> \o root),
                         BigSub(r, BigScale(<<d>> \o twice, d)), p - 1))))

\* the whole part of the square root of n and the remainder n - root^2
BigSqrt(n) == BigSqrtFrom(n, << >>, << >>, (Len(n) - 1) \div 2)

\* math.sqrt: the root of the leading digits of a * 2^FracBits (enough of
\* them for Precision + 2 bits of the root), the rest only makes it inexact
fsqrt(a) ==
    IF a = << >> THEN a
    ELSE Then(BigShl(a, FracBits), LAMBDA n :
         LET drop == 2 * (Max(0, Len(n) - 10) \div 2)
             top  == SubSeq(n, drop + 1, Len(n))
             lost == \E i \in 1 .. drop : n[i] # 0
         IN  Then(BigSqrt(top), LAMBDA s :
                 RoundSig([i \in 1 .. (drop \div 2) |-> 0] \o s.root,
                          lost \/ s.rem # << >>)))

RECURSIVE BigDivFrom(_, _, _, _)
\* long division of the digits i .. 1 of a by d < Base, rem carried from above
BigDivFrom(a, d, i, rem) ==
    IF i = 0 THEN [quot |-> << >>, rem |-> rem]
    ELSE Then(rem * Base + a[i], LAMBDA v :
         Then(BigDivFrom(a, d, i - 1, v % d), LAMBDA r :
             [quot |-> Append(r.quot, v \div d), rem |-> r.rem]))

\* float / whole number d, 0 < d < Base
fdiv(a, d) ==
    Then(BigShl(a, 5 * DigitBits), LAMBDA n :
    Then(BigDivFrom(n, d, Len(n), 0), LAMBDA r :
        BigShr(RoundSig(BigNorm(r.quot), r.rem # 0), 5 * DigitBits)))

flt(a, b) == BigCmp(a, b) < 0
fge(a, b) == BigCmp(a, b) >= 0
fmax(a, b) == IF flt(a, b) THEN b ELSE a
fmin(a, b) == IF flt(b, a) THEN b ELSE a

\* constrain(value, min_val, max_val) on floats
fconstrain(value, min_val, max_val) == fmax(min_val, fmin(max_val, value))

\* floor(a * scale) as an integer, for a float a and 0 <= scale <= Base
FixedOf(a, scale) == BigToInt(BigShr(BigScale(a, scale), FracBits))

\* a float of either sign: the sign and the absolute value
SFloat(neg, mag) == [neg |-> neg /\ mag # << >>, mag |-> mag]
SFixedOf(s, scale) == IF s.neg THEN -FixedOf(s.mag, scale) ELSE FixedOf(s.mag, scale)

sfadd(a, b) ==
    IF a.neg = b.neg THEN SFloat(a.neg, fadd(a.mag, b.mag))
    ELSE IF fge(a.mag, b.mag) THEN SFloat(a.neg, fsub(a.mag, b.mag))
    ELSE SFloat(b.neg, fsub(b.mag, a.mag))

sfmul(a, b) == SFloat(a.neg # b.neg, fmul(a.mag, b.mag))

\* the literals 0.01, 0.05, 0.1, 0.2, 0.3, 0.4, 0.55 as Python reads them
\* (0x1.47ae147ae147bp-7, 0x1.999999999999ap-5, 0x1.999999999999ap-4,
\* 0x1.999999999999ap-3, 0x1.3333333333333p-2, 0x1.999999999999ap-2,
\* 0x1.199999999999ap-1)
Float_0_01 == <<0, 0, 7872, 7208, 5242, 7536, 81>>
Float_0_05 == <<0, 0, 6656, 3276, 1638, 4915, 409>>
Float_0_1 == <<0, 0, 5120, 6553, 3276, 1638, 819>>
Float_0_2 == <<0, 0, 2048, 4915, 6553, 3276, 1638>>
Float_0_3 == <<0, 0, 6144, 3276, 1638, 4915, 2457>>
Float_0_4 == <<0, 0, 4096, 1638, 4915, 6553, 3276>>
Float_0_55 == <<0, 0, 0, 3277, 1638, 4915, 4505>>
Float_1_2 == <<0, 0, 0, 4915, 6553, 3276, 1638, 1>>

-----------------------------------------------------------------------------
(* servo_controller.py                                                     *)

write_angle(m, servo_index, angle) ==
    IF m.exc # "None" THEN m
    ELSE LET a == Max(0, Min(18000, angle))
         IN  IF m.servo.last_angles[servo_index] = a THEN m
             ELSE [m EXCEPT !.servo.last_angles[servo_index] = a]

write_leg_servos(m, leg, angles) ==
    IF m.exc # "None" THEN m
    ELSE LET base_index == leg * 3 IN
         Then([m EXCEPT !.log = Append(m.log, [leg |-> leg, angles |-> angles])], LAMBDA m0 :
         Then(write_angle(m0, base_index, angles[1]), LAMBDA m1 :
         Then(write_angle(m1, base_index + 1, angles[2]), LAMBDA m2 :
         write_angle(m2, base_index + 2, angles[3]))))

attach_servos(m) ==
    IF m.exc # "None" \/ m.servo.servos_attached THEN m
    ELSE [m EXCEPT !.servo = [servos_attached |-> TRUE,
                              last_angles |-> [i \in 0 .. 17 |-> 9000]]]

detach_servos(m) ==
    IF m.exc # "None" \/ ~m.servo.servos_attached THEN m
    ELSE [m EXCEPT !.servo.servos_attached = FALSE]

-----------------------------------------------------------------------------
(* kinematics.py                                                           *)

\* 10000 * num / den clamped into -10000 .. 10000, for num, den up to 2^31
Ratio(num, den) ==
    LET d == den \div 10000
    IN  IF d = 0 THEN (IF num < 0 THEN -10000 ELSE 10000)
        ELSE constrain(num \div d, -10000, 10000)

\* the solver part of move_to_pos: angles from the target, then the servo command
move_to_pos_solve(m1, leg, pos) ==
    LET o == m1.kin.offsets[leg]
        theta1 == atan2(pos.y, pos.x) + o.x
        l == sqrt(pos.x * pos.x + pos.y * pos.y)
        l1 == l - COXA_LENGTH
        hh == l1 * l1 + pos.z * pos.z
        h == sqrt(hh)
        \* h == 0.0 exactly when the foot lies on the femur joint
        h_zero == pos.x * pos.x + pos.y * pos.y = COXA_LENGTH * COXA_LENGTH /\ pos.z = 0
    IN  IF h_zero THEN [m1 EXCEPT !.exc = "ZeroDivisionError"]
        ELSE
        LET phi1 == acos(Ratio(hh + FEMUR_LENGTH * FEMUR_LENGTH - TIBIA_LENGTH * TIBIA_LENGTH,
                               2 * h * FEMUR_LENGTH))
            phi2 == atan2(pos.z, l1)
            theta2 == phi1 + phi2 + o.y
            phi3 == acos(Ratio(FEMUR_LENGTH * FEMUR_LENGTH + TIBIA_LENGTH * TIBIA_LENGTH - hh,
                               2 * FEMUR_LENGTH * TIBIA_LENGTH))
            theta3 == 180 - phi3 + o.z
            angles == << microseconds_to_angle(angle_to_microseconds(theta1)),
                         microseconds_to_angle(angle_to_microseconds(theta2)),
                         microseconds_to_angle(angle_to_microseconds(theta3)) >>
        IN  Then(angles, LAMBDA a : [write_leg_servos(m1, leg, a) EXCEPT !.ret = "True"])

\* move_to_pos that stores the position only after the reach check has passed
move_to_pos_store_reachable(m, leg, pos) ==
    IF m.exc # "None" THEN m
    ELSE IF ~distance_leq(Origin, pos, LEG_LENGTH) THEN [m EXCEPT !.ret = "False"]
    ELSE Then([m EXCEPT !.kin.foot_positions[leg] = [x |-> int(pos.x), y |-> int(pos.y)],
                        !.kin.current_points[leg] = pos], LAMBDA m1 :
             move_to_pos_solve(m1, leg, pos))

\* move_to_pos whose reach check prints its warning but does not return
move_to_pos_no_return(m, leg, pos) ==
    IF m.exc # "None" THEN m
    ELSE
    Then([m EXCEPT !.kin.foot_positions[leg] = [x |-> int(pos.x), y |-> int(pos.y)],
                   !.kin.current_points[leg] = pos], LAMBDA m1 :
        move_to_pos_solve(m1, leg, pos))

move_to_pos(m, leg, pos) ==
    IF m.exc # "None" THEN m
    ELSE
    Then([m EXCEPT !.kin.foot_positions[leg] = [x |-> int(pos.x), y |-> int(pos.y)],
                   !.kin.current_points[leg] = pos], LAMBDA m1 :
        IF ~distance_leq(Origin, pos, LEG_LENGTH) THEN [m1 EXCEPT !.ret = "False"]
        ELSE move_to_pos_solve(m1, leg, pos))

\* move_to_pos for any integer leg.  A list index beyond either end raises
\* IndexError at the first statement; a negative index within the list
\* counts from its end, so that leg -1 is leg 5 in foot_positions,
\* current_points and offsets and in the cached servo angles.  (What the
\* servo library does with a negative channel lies outside the repository;
\* the specifications offer negative legs only with targets beyond reach.)
move_to_pos_at(m, leg, pos) ==
    IF m.exc # "None" THEN m
    ELSE IF leg > 5 \/ leg < -6 THEN [m EXCEPT !.exc = "IndexError"]
    ELSE IF leg >= 0 THEN move_to_pos(m, leg, pos)
    ELSE move_to_pos(m, leg + 6, pos)

\* HexapodKinematics.get_current_position: the machine and the position returned
get_current_position(m, leg) ==
    [m |-> [m EXCEPT !.ret = "Vector3"],
     pos |-> IF 0 <= leg /\ leg < 6 THEN m.kin.current_points[leg] ELSE Origin]

\* HexapodKinematics.set_current_position
set_current_position(m, leg, pos) ==
    IF 0 <= leg /\ leg < 6
    THEN [m EXCEPT !.kin.current_points[leg] = pos, !.ret = "None"]
    ELSE [m EXCEPT !.ret = "None"]

\* the derived vectors without the base offset
update_offset_variables_no_base(m) ==
    [m EXCEPT !.kin.offsets =
        [i \in Legs |-> Vector3(m.kin.raw_offsets[i * 3 + 1],
                                m.kin.raw_offsets[i * 3 + 2],
                                m.kin.raw_offsets[i * 3 + 3])]]

update_offset_variables(m) ==
    [m EXCEPT !.kin.offsets =
        [i \in Legs |-> Vector3(m.kin.raw_offsets[i * 3 + 1] + BASE_OFFSET.x,
                                m.kin.raw_offsets[i * 3 + 2] + BASE_OFFSET.y,
                                m.kin.raw_offsets[i * 3 + 3] + BASE_OFFSET.z)]]

\* set_raw_offsets that pads or cuts the list to 18 entries instead of rejecting it
set_raw_offsets_normalizing(m, offsets) ==
    IF m.exc # "None" THEN m
    ELSE [update_offset_variables(
            [m EXCEPT !.kin.raw_offsets =
                [i \in 1 .. 18 |-> IF i <= Len(offsets) THEN offsets[i] ELSE 0]])
          EXCEPT !.ret = "None", !.sets = m.sets + 1]

\* set_raw_offsets without the length check: a short list is stored and
\* update_offset_variables then indexes past its end
set_raw_offsets_unchecked(m, offsets) ==
    IF m.exc # "None" THEN m
    ELSE IF Len(offsets) < 18
         THEN [m EXCEPT !.kin.raw_offsets = offsets, !.exc = "IndexError", !.sets = m.sets + 1]
    ELSE [update_offset_variables([m EXCEPT !.kin.raw_offsets = offsets])
          EXCEPT !.ret = "None", !.sets = m.sets + 1]

set_raw_offsets(m, offsets) ==
    IF m.exc # "None" THEN m
    ELSE IF Len(offsets) # 18 THEN [m EXCEPT !.ret = "None", !.sets = m.sets + 1]
    ELSE [update_offset_variables([m EXCEPT !.kin.raw_offsets = offsets])
          EXCEPT !.ret = "None", !.sets = m.sets + 1]

get_raw_offsets(m) == m.kin.raw_offsets

-----------------------------------------------------------------------------
(* Machine records                                                         *)

Zero18 == [i \in 1 .. 18 |-> 0]

\* HexapodKinematics.__init__
KinematicsInit ==
    [current_points |-> [i \in Legs |-> Origin],
     foot_positions |-> [i \in Legs |-> [x |-> 0, y |-> 0]],
     raw_offsets    |-> Zero18,
     offsets        |-> [i \in Legs |-> Vector3(BASE_OFFSET.x, BASE_OFFSET.y, BASE_OFFSET.z)]]

\* HexapodServoController.__init__
ServoInit == [servos_attached |-> FALSE, last_angles |-> [i \in 0 .. 17 |-> NoAngle]]

\* StandingState.__init__
StandingInit ==
    [scpa |-> [i \in Legs |-> <<Origin, Origin, Origin>>],
     standing_start_points |-> [i \in Legs |-> Origin],
     standing_in_between_points |-> [i \in Legs |-> Origin],
     standing_end_point |-> Origin,
     current_legs |-> <<-1, -1, -1>>,
     stand_loops |-> 0,
     stand_progress |-> 0,
     distance_from_ground |-> DISTANCE_FROM_GROUND_BASE,
     initialized |-> FALSE]

\* SleepState.__init__
SleepInit ==
    [target_sleep_position |-> Vector3(13000, 0, -4600),
     sleep_state |-> 1,
     initialized |-> FALSE,
     servos_detached |-> FALSE]

\* CalibrationState.__init__
CalibrationInit ==
    [target_calibration |-> Vector3(COXA_LENGTH + 4300, 0, FEMUR_LENGTH + 18500),
     in_between_z |-> -2000,
     previous_offsets |-> Zero18,
     initialized |-> FALSE,
     legs_lifted |-> FALSE]

\* AttacksState.__init__; control_points is a scratch list and is left out
AttacksInit ==
    [cycle_start_points |-> [i \in Legs |-> Origin],
     slam_started |-> FALSE]

\* WalkingState.__init__.  t_array and push_fraction count millionths of a
\* cycle, the stride and lift multipliers hundredths, the rotation
\* multiplier ten-thousandths; cycle_progress, the speed multipliers and
\* max_speed are floats.  control_points and rotate_control_points are
\* scratch lists, written before every read, and are left out.
WalkingInit ==
    [forward_amount |-> Float(0),
     turn_amount |-> SFloat(FALSE, Float(0)),
     t_array |-> [i \in Legs |-> 0],
     cycle_progress |-> [i \in Legs |-> Float(0)],
     cycle_start_points |-> [i \in Legs |-> Origin],
     leg_states |-> [i \in Legs |-> "Reset"],
     push_fraction |-> 3000000 \div 6,
     speed_multiplier |-> fdiv(Float(1), 2),
     stride_length_multiplier |-> 150,
     lift_height_multiplier |-> 100,
     max_stride_length |-> 200 * Unit,
     max_speed |-> Float(100),
     global_speed_multiplier |-> Float_0_55,
     global_rotation_multiplier |-> 5500,
     distance_from_ground |-> DISTANCE_FROM_GROUND_BASE,
     previous_gait |-> "None",
     current_gait |-> "TRI"]

\* CRSFReceiver.__init__: the link state and the processed control values
ReceiverInit ==
    [serial |-> FALSE,
     connected |-> FALSE,
     joystick1_x |-> SFloat(FALSE, Float(0)),
     joystick1_y |-> SFloat(FALSE, Float(0)),
     joystick2_x |-> SFloat(FALSE, Float(0)),
     speed_multiplier |-> SFloat(FALSE, Float(1)),
     gait_index |-> 0,
     calibration_mode |-> FALSE,
     sleep_mode |-> FALSE]

\* HexapodController.__init__; state_objects says that setup has built the
\* state controllers (they are None before), exited that sys.exit was called
ControllerInit ==
    [receiver |-> ReceiverInit,
     current_state |-> "Initialize",
     current_gait |-> "TRI",
     connected |-> FALSE,
     state_objects |-> FALSE,
     distance_from_ground |-> DISTANCE_FROM_GROUND_BASE,
     target_distance_from_ground |-> DISTANCE_FROM_GROUND_BASE,
     joy1_current |-> Vector2(SFloat(FALSE, Float(0)), SFloat(FALSE, Float(0))),
     joy1_target |-> Vector2(SFloat(FALSE, Float(0)), SFloat(FALSE, Float(0))),
     joy2_current |-> Vector2(SFloat(FALSE, Float(0)), SFloat(FALSE, Float(0))),
     joy2_target |-> Vector2(SFloat(FALSE, Float(0)), SFloat(FALSE, Float(0))),
     loop_count |-> 0,
     exited |-> FALSE]

\* HexapodStorage._create_default_config without 'offsets': each section a
\* dictionary, a function from its keys
StorageDataInit ==
    [calibration |-> [distance_from_center |-> DISTANCE_FROM_CENTER,
                      distance_from_ground |-> DISTANCE_FROM_GROUND_BASE,
                      lift_height |-> LIFT_HEIGHT,
                      land_height |-> LAND_HEIGHT],
     settings |-> [dynamic_stride_length |-> TRUE, default_gait |-> 0]]

\* The objects a handler can reach, with no call in progress
Machine ==
    [kin |-> kinematics, servo |-> servo_controller, pts |-> current_points,
     shared |-> shared, stand |-> standing_state, sleep |-> sleep_state,
     cal |-> calibration_state, walk |-> walking_state, atk |-> attacks_state,
     ctl |-> controller,
     store |-> storage, data |-> storage_data,
     ret |-> "None", exc |-> "None", log |-> << >>, sets |-> 0, writes |-> 0]

\* self.current_points as a state controller reads it
points(m) == IF m.shared THEN m.kin.current_points ELSE m.pts

\* The state after the call named by c has returned (or raised) in machine m
Commit(c, m) ==
    /\ kinematics' = m.kin
    /\ servo_controller' = m.servo
    /\ current_points' = points(m)
    /\ shared' = m.shared
    /\ standing_state' = m.stand
    /\ sleep_state' = m.sleep
    /\ calibration_state' = m.cal
    /\ walking_state' = m.walk
    /\ attacks_state' = m.atk
    /\ controller' = m.ctl
    /\ storage' = m.store
    /\ storage_data' = m.data
    /\ call' = [c EXCEPT !.ret = m.ret, !.exc = m.exc, !.log = m.log, !.sets = m.sets,
                         !.writes = m.writes]

NoCall == [op |-> "init", ret |-> "None", exc |-> "None", log |-> << >>, sets |-> 0,
           writes |-> 0,
           n |-> 0, leg |-> 0, pos |-> Origin, arg |-> << >>]

\* the record of a call of op; n counts calls only where a specification bounds them
Call(op) == [NoCall EXCEPT !.op = op, !.n = call.n]

\* the branch of set_gait for one gait: the phase of every leg and the
\* parameters of the gait
GaitProfile(gait, pts) ==
    CASE gait = "TRI" ->
           [cycle_progress |-> <<Float(0), fdiv(pts, 2), Float(0), fdiv(pts, 2),
                                 Float(0), fdiv(pts, 2)>>,
            push_fraction |-> 3100000 \div 6, speed_multiplier |-> Float(1),
            stride_length_multiplier |-> 120, lift_height_multiplier |-> 110,
            max_stride_length |-> 240 * Unit, max_speed |-> Float(200)]
      [] gait = "WAVE" ->
           [cycle_progress |-> <<Float(0), fdiv(pts, 6), fmul(fdiv(pts, 6), Float(2)),
                                 fmul(fdiv(pts, 6), Float(5)), fmul(fdiv(pts, 6), Float(4)),
                                 fmul(fdiv(pts, 6), Float(3))>>,
            push_fraction |-> 4900000 \div 6, speed_multiplier |-> Float_0_4,
            stride_length_multiplier |-> 200, lift_height_multiplier |-> 120,
            max_stride_length |-> 150 * Unit, max_speed |-> Float(160)]
      [] gait = "RIPPLE" ->
           [cycle_progress |-> <<Float(0), fmul(fdiv(pts, 6), Float(4)),
                                 fmul(fdiv(pts, 6), Float(2)), fmul(fdiv(pts, 6), Float(5)),
                                 fdiv(pts, 6), fmul(fdiv(pts, 6), Float(3))>>,
            push_fraction |-> 3200000 \div 6, speed_multiplier |-> Float(1),
            stride_length_multiplier |-> 130, lift_height_multiplier |-> 110,
            max_stride_length |-> 220 * Unit, max_speed |-> Float(200)]
      [] gait = "BI" ->
           [cycle_progress |-> <<Float(0), fdiv(pts, 3), fmul(fdiv(pts, 3), Float(2)),
                                 Float(0), fdiv(pts, 3), fmul(fdiv(pts, 3), Float(2))>>,
            push_fraction |-> 2100000 \div 6, speed_multiplier |-> Float(4),
            stride_length_multiplier |-> 100, lift_height_multiplier |-> 180,
            max_stride_length |-> 230 * Unit, max_speed |-> Float(130)]
      [] gait = "QUAD" ->
           [cycle_progress |-> <<Float(0), fdiv(pts, 3), fmul(fdiv(pts, 3), Float(2)),
                                 Float(0), fdiv(pts, 3), fmul(fdiv(pts, 3), Float(2))>>,
            push_fraction |-> 4100000 \div 6, speed_multiplier |-> Float(1),
            stride_length_multiplier |-> 120, lift_height_multiplier |-> 110,
            max_stride_length |-> 220 * Unit, max_speed |-> Float(200)]
      [] gait = "HOP" ->
           [cycle_progress |-> <<Float(0), Float(0), Float(0), Float(0), Float(0), Float(0)>>,
            push_fraction |-> 3000000 \div 6, speed_multiplier |-> Float(1),
            stride_length_multiplier |-> 160, lift_height_multiplier |-> 250,
            max_stride_length |-> 240 * Unit, max_speed |-> Float(200)]

\* set_gait without the "Initialize leg states on gait change" block
WalkingState_set_gait_keeps_states(m, gait) ==
    IF m.exc # "None" THEN m
    ELSE
    LET w1 == [m.walk EXCEPT !.previous_gait = m.walk.current_gait, !.current_gait = gait]
    IN  IF gait \notin Gaits THEN [m EXCEPT !.walk = w1, !.ret = "None"]
        ELSE Then(GaitProfile(gait, Float(POINTS)), LAMBDA p :
             [m EXCEPT !.walk = [w1 EXCEPT
                   !.cycle_progress = [i \in Legs |-> p.cycle_progress[i + 1]],
                   !.push_fraction = p.push_fraction,
                   !.speed_multiplier = p.speed_multiplier,
                   !.stride_length_multiplier = p.stride_length_multiplier,
                   !.lift_height_multiplier = p.lift_height_multiplier,
                   !.max_stride_length = p.max_stride_length,
                   !.max_speed = p.max_speed],
                 !.ret = "None"])

WalkingState_set_gait(m, gait) ==
    IF m.exc # "None" THEN m
    ELSE
    LET w0 == [m.walk EXCEPT !.previous_gait = m.walk.current_gait, !.current_gait = gait]
        w1 == IF w0.previous_gait # w0.current_gait
              THEN [w0 EXCEPT !.leg_states = [i \in Legs |-> "Reset"]]
              ELSE w0
    IN  IF gait \notin Gaits THEN [m EXCEPT !.walk = w1, !.ret = "None"]
        ELSE Then(GaitProfile(gait, Float(POINTS)), LAMBDA p :
             [m EXCEPT !.walk = [w1 EXCEPT
                   !.cycle_progress = [i \in Legs |-> p.cycle_progress[i + 1]],
                   !.push_fraction = p.push_fraction,
                   !.speed_multiplier = p.speed_multiplier,
                   !.stride_length_multiplier = p.stride_length_multiplier,
                   !.lift_height_multiplier = p.lift_height_multiplier,
                   !.max_stride_length = p.max_stride_length,
                   !.max_speed = p.max_speed],
                 !.ret = "None"])

\* Everything as the constructors leave it
Fresh ==
    [kin |-> KinematicsInit, servo |-> ServoInit, pts |-> KinematicsInit.current_points,
     shared |-> FALSE, stand |-> StandingInit, sleep |-> SleepInit,
     cal |-> CalibrationInit, walk |-> WalkingInit, atk |-> AttacksInit,
     ctl |-> ControllerInit,
     store |-> Zero18, data |-> StorageDataInit,
     ret |-> "None", exc |-> "None", log |-> << >>, sets |-> 0, writes |-> 0]

RECURSIVE place_legs(_, _, _)
place_legs(m, P, i) ==
    IF i > 5 THEN m
    ELSE Then(move_to_pos(m, i, P[i]), LAMBDA m1 : place_legs(m1, P, i + 1))

\* HexapodController.setup from machine m0 with the legs placed at P: servos
\* attached, every leg moved to its position, then the state controllers
\* built on get_all_positions() (sh = FALSE) or on kinematics.current_points
\* (sh = TRUE)
setup_from(m0, P, sh) ==
    Then(place_legs(attach_servos(m0), P, 0), LAMBDA m :
    Then(WalkingState_set_gait([m EXCEPT !.pts = m.kin.current_points, !.shared = sh],
                               m.ctl.current_gait), LAMBDA m1 :
        [m1 EXCEPT !.ctl.state_objects = TRUE, !.ctl.current_state = "Stand",
                   !.ret = "None", !.log = << >>, !.sets = 0]))

\* setup on freshly constructed objects
Setup(P, sh) == setup_from(Fresh, P, sh)

\* the variables hold machine m and no call has been made
Start(m) ==
    /\ kinematics = m.kin
    /\ servo_controller = m.servo
    /\ current_points = points(m)
    /\ shared = m.shared
    /\ standing_state = m.stand
    /\ sleep_state = m.sleep
    /\ calibration_state = m.cal
    /\ walking_state = m.walk
    /\ attacks_state = m.atk
    /\ controller = m.ctl
    /\ storage = m.store
    /\ storage_data = m.data
    /\ call = NoCall

-----------------------------------------------------------------------------
(* states/standing.py                                                      *)

AllAtOnceStates == {"Calibrate", "Initialize", "SlamAttack", "Sleep", "Attach"}
HighLiftStates == {"SlamAttack", "Sleep"}

RECURSIVE highest_scan(_, _, _, _)
\* the inner loop of set_3_highest_legs for slot j, from leg i on
highest_scan(m, legs, j, i) ==
    IF i > 5 THEN legs
    ELSE IF \E k \in 1 .. 3 : legs[k] = i THEN highest_scan(m, legs, j, i + 1)
    ELSE IF distance_lt(points(m)[i], m.stand.standing_end_point, 5 * Unit)
         THEN highest_scan(m, legs, j, i + 1)
    ELSE IF legs[j] = -1 \/ points(m)[i].z > points(m)[legs[j]].z
         THEN highest_scan(m, [legs EXCEPT ![j] = i], j, i + 1)
    ELSE highest_scan(m, legs, j, i + 1)

\* the selection with the first slot's leg written to all three slots
set_3_highest_legs_one_scan(m) ==
    LET l1 == highest_scan(m, <<-1, -1, -1>>, 1, 0)
    IN  [m EXCEPT !.stand.current_legs = <<l1[1], l1[1], l1[1]>>]

set_3_highest_legs(m) ==
    LET l1 == highest_scan(m, <<-1, -1, -1>>, 1, 0)
        l2 == highest_scan(m, l1, 2, 0)
        l3 == highest_scan(m, l2, 3, 0)
    IN  [m EXCEPT !.stand.current_legs = l3]

\* the in-between control point of one leg
in_between(start, end, high_lift) ==
    LET x == (2 * (start.x + end.x)) \div 3
        y == (2 * (start.y + end.y)) \div 3
        z0 == (start.z + end.z) \div 2
        z1 == IF Abs(z0 - end.z) < 50 * Unit THEN z0 + 70 * Unit ELSE z0
        z2 == IF high_lift THEN z1 + 80 * Unit ELSE z1
    IN  Vector3(x, y, z2)

\* the "if not self.initialized" block of StandingState.update
stand_initialize(m, from_state, move_all_at_once, high_lift) ==
    LET all  == move_all_at_once \/ from_state \in AllAtOnceStates
        high == high_lift \/ from_state \in HighLiftStates
        m0 == [m EXCEPT !.stand.initialized = TRUE,
                        !.stand.stand_loops = 0,
                        !.stand.stand_progress = 0]
        m1 == IF all THEN m0 ELSE set_3_highest_legs(m0)
        start == points(m1)
        end == m1.stand.standing_end_point
        mid == [i \in Legs |-> in_between(start[i], end, high)]
    IN  [m1 EXCEPT !.stand.standing_start_points = start,
                   !.stand.standing_in_between_points = mid,
                   !.stand.scpa = [i \in Legs |-> <<start[i], mid[i], end>>]]

RECURSIVE stand_move_all(_, _, _)
stand_move_all(m, tnum, i) ==
    IF i > 5 THEN m
    ELSE stand_move_all(
            move_to_pos(m, i, get_point_on_bezier_curve(m.stand.scpa[i], 3, tnum, POINTS)),
            tnum, i + 1)

RECURSIVE stand_move_three(_, _, _)
stand_move_three(m, tnum, i) ==
    IF i > 3 THEN m
    ELSE LET leg == m.stand.current_legs[i]
         IN  IF leg # -1
             THEN stand_move_three(
                    move_to_pos(m, leg,
                                get_point_on_bezier_curve(m.stand.scpa[leg], 3, tnum, POINTS)),
                    tnum, i + 1)
             ELSE stand_move_three(m, tnum, i + 1)

\* the transition block without "self.stand_progress = 0" at the end of a
\* pass of three legs
stand_transition_keeps_progress(m, all) ==
    IF m.stand.stand_loops >= 2 THEN m
    ELSE
    LET progress == m.stand.stand_progress + 20
        tnum == Min(progress, POINTS)
        m0 == [m EXCEPT !.stand.stand_progress = progress]
    IN  IF all
        THEN LET m1 == stand_move_all(m0, tnum, 0)
             IN  IF m1.exc # "None" \/ progress <= POINTS THEN m1
                 ELSE [m1 EXCEPT !.stand.stand_progress = 0, !.stand.stand_loops = 2]
        ELSE LET m1 == stand_move_three(m0, tnum, 1)
             IN  IF m1.exc # "None" \/ progress <= POINTS THEN m1
                 ELSE LET m2 == [m1 EXCEPT !.stand.stand_loops = m1.stand.stand_loops + 1]
                      IN  IF m2.stand.stand_loops < 2 THEN set_3_highest_legs(m2) ELSE m2

\* the "if self.stand_loops < 2" block
stand_transition(m, all) ==
    IF m.stand.stand_loops >= 2 THEN m
    ELSE
    LET progress == m.stand.stand_progress + 20
        tnum == Min(progress, POINTS)
        m0 == [m EXCEPT !.stand.stand_progress = progress]
    IN  IF all
        THEN LET m1 == stand_move_all(m0, tnum, 0)
             IN  IF m1.exc # "None" \/ progress <= POINTS THEN m1
                 ELSE [m1 EXCEPT !.stand.stand_progress = 0, !.stand.stand_loops = 2]
        ELSE LET m1 == stand_move_three(m0, tnum, 1)
             IN  IF m1.exc # "None" \/ progress <= POINTS THEN m1
                 ELSE LET m2 == [m1 EXCEPT !.stand.stand_progress = 0,
                                           !.stand.stand_loops = m1.stand.stand_loops + 1]
                      IN  IF m2.stand.stand_loops < 2 THEN set_3_highest_legs(m2) ELSE m2

RECURSIVE stand_maintain(_, _)
\* the "Maintain standing position" loop
stand_maintain(m, i) ==
    IF i > 5 THEN m
    ELSE stand_maintain(
            move_to_pos(m, i, get_point_on_bezier_curve(m.stand.scpa[i], 3, 1, 1)),
            i + 1)

StandingState_update(m, distance_from_ground, standing_distance_adjustment, from_state, move_all_at_once, high_lift) ==
    LET end == Vector3(DISTANCE_FROM_CENTER, 0,
                       distance_from_ground + standing_distance_adjustment)
        m0 == [m EXCEPT !.stand.distance_from_ground = distance_from_ground,
                        !.stand.standing_end_point = end]
        first == ~m0.stand.initialized
        all == IF first THEN move_all_at_once \/ from_state \in AllAtOnceStates
                        ELSE move_all_at_once
        m1 == IF first THEN stand_initialize(m0, from_state, move_all_at_once, high_lift)
                       ELSE m0
        m2 == [m1 EXCEPT !.stand.scpa =
                  [i \in Legs |-> [m1.stand.scpa[i] EXCEPT ![3] = end]]]
        m3 == stand_transition(m2, all)
        m4 == stand_maintain(m3, 0)
    IN  IF m4.exc # "None" THEN m4
        ELSE [m4 EXCEPT !.ret = IF m4.stand.stand_loops >= 2 THEN "True" ELSE "False"]

StandingState_reset(m) ==
    [m EXCEPT !.stand.initialized = FALSE,
              !.stand.stand_loops = 0,
              !.stand.stand_progress = 0,
              !.ret = "None"]

-----------------------------------------------------------------------------
(* states/sleep.py                                                         *)

\* a != b for two Vector3 objects.  Vector3 defines neither __eq__ nor
\* __ne__, so Python compares object identity; a_ref and b_ref name the
\* objects.  Every element of a current_points list is an object made by
\* Vector3.copy() (kinematics.py, move_to_pos and get_all_positions).
Vector3_ne(a_ref, b_ref) == a_ref # b_ref

RECURSIVE sleep_lower(_, _, _)
\* the "for i in range(6)" loop of phase 1; gives the machine and target_reached
sleep_lower(m, i, target_reached) ==
    IF i > 5 THEN [m |-> m, target_reached |-> target_reached]
    ELSE
    LET cur == points(m)[i]
        tgt == m.sleep.target_sleep_position
        lp  == lerp3(cur, tgt, 3)
        next_pos == Vector3(IF Abs(cur.x - tgt.x) < Unit THEN tgt.x ELSE lp.x,
                            IF Abs(cur.y - tgt.y) < Unit THEN tgt.y ELSE lp.y,
                            IF Abs(cur.z - tgt.z) < Unit THEN tgt.z ELSE lp.z)
    IN  Then(move_to_pos(m, i, next_pos), LAMBDA m1 :
            sleep_lower(m1, i + 1,
                        IF Vector3_ne(<<"current_points", i>>, <<"target_sleep_position">>)
                        THEN FALSE ELSE target_reached))

SleepState_update(m) ==
    Then(IF m.sleep.initialized THEN m
         ELSE [m EXCEPT !.sleep.initialized = TRUE,
                        !.sleep.sleep_state = 1,
                        !.sleep.servos_detached = FALSE], LAMBDA m0 :
        IF ~m0.servo.servos_attached THEN [m0 EXCEPT !.ret = "True"]
        ELSE IF m0.sleep.sleep_state = 1
        THEN Then(sleep_lower(m0, 0, TRUE), LAMBDA r :
                 IF r.m.exc # "None" THEN r.m
                 ELSE IF r.target_reached
                      THEN [r.m EXCEPT !.sleep.sleep_state = 2, !.ret = "False"]
                      ELSE [r.m EXCEPT !.ret = "False"])
        ELSE IF m0.sleep.sleep_state = 2
        THEN [detach_servos(m0) EXCEPT !.sleep.servos_detached = TRUE,
                                       !.sleep.sleep_state = 3,
                                       !.ret = "True"]
        ELSE IF m0.sleep.sleep_state = 3 THEN [m0 EXCEPT !.ret = "True"]
        ELSE [m0 EXCEPT !.ret = "False"])

\* wake_up without the servos_detached test
SleepState_wake_up_unguarded(m) ==
    [attach_servos(m) EXCEPT !.sleep.servos_detached = FALSE, !.ret = "True"]

SleepState_wake_up(m) ==
    IF m.sleep.servos_detached
    THEN [attach_servos(m) EXCEPT !.sleep.servos_detached = FALSE, !.ret = "True"]
    ELSE [m EXCEPT !.ret = "False"]

SleepState_reset(m) ==
    [m EXCEPT !.sleep.initialized = FALSE, !.sleep.sleep_state = 1, !.ret = "None"]

\* enter_sleep_mode: a new SleepState, with smooth False put straight into
\* phase 3 with the servos detached
enter_sleep_mode(m, smooth) ==
    IF smooth THEN [m EXCEPT !.sleep = SleepInit]
    ELSE [detach_servos(m) EXCEPT !.sleep = [SleepInit EXCEPT !.sleep_state = 3,
                                                              !.servos_detached = TRUE]]

-----------------------------------------------------------------------------
(* storage.py                                                              *)

\* dict.update: the entries of b, then those of a that b does not name
dict_update(a, b) ==
    [k \in DOMAIN a \cup DOMAIN b |-> IF k \in DOMAIN b THEN b[k] ELSE a[k]]

\* HexapodStorage.save: the file takes self.data, which storage and
\* storage_data stand for; m.writes counts the writes of the file
storage_save(m) == [m EXCEPT !.ret = "True", !.writes = m.writes + 1]

\* HexapodStorage.save_calibration; a file without the section raises
storage_save_calibration(m, calibration_data) ==
    IF "calibration" \notin DOMAIN m.data THEN [m EXCEPT !.exc = "KeyError"]
    ELSE storage_save([m EXCEPT !.data.calibration =
                                    dict_update(m.data.calibration, calibration_data)])

\* save_settings that writes a fresh default configuration with the new
\* settings in it
storage_save_settings_fresh(m, settings_data) ==
    storage_save([m EXCEPT !.store = Zero18,
                           !.data = [StorageDataInit EXCEPT
                                        !.settings = dict_update(StorageDataInit.settings,
                                                                 settings_data)]])

\* HexapodStorage.save_settings
storage_save_settings(m, settings_data) ==
    IF "settings" \notin DOMAIN m.data THEN [m EXCEPT !.exc = "KeyError"]
    ELSE storage_save([m EXCEPT !.data.settings =
                                    dict_update(m.data.settings, settings_data)])

\* HexapodStorage.set_setting
storage_set_setting(m, key, value) ==
    LET settings == IF "settings" \in DOMAIN m.data THEN m.data.settings ELSE << >>
    IN  storage_save([m EXCEPT !.data = dict_update(m.data,
                               [settings |-> dict_update(settings, [k \in {key} |-> value])])])

\* load_offsets that cuts a long list but does not pad a short one
storage_load_offsets_unpadded(m) ==
    [m |-> m, offsets |-> SubSeq(m.store, 1, Min(18, Len(m.store)))]

\* HexapodStorage.load_offsets: gives the machine (a short stored list is
\* extended in place) and the returned list
storage_load_offsets(m) ==
    LET offsets == m.store
    IN  IF Len(offsets) < 18
        THEN LET ext == offsets \o [i \in 1 .. 18 - Len(offsets) |-> 0]
             IN  [m |-> [m EXCEPT !.store = ext], offsets |-> ext]
        ELSE IF Len(offsets) > 18
        THEN [m |-> m, offsets |-> SubSeq(offsets, 1, 18)]
        ELSE [m |-> m, offsets |-> offsets]

\* save_offsets that stores the list before it looks at its length
storage_save_offsets_stores_first(m, offsets) ==
    IF Len(offsets) # 18 THEN [m EXCEPT !.store = offsets, !.ret = "False"]
    ELSE storage_save([m EXCEPT !.store = offsets])

\* HexapodStorage.save_offsets
storage_save_offsets(m, offsets) ==
    IF Len(offsets) # 18 THEN [m EXCEPT !.ret = "False"]
    ELSE storage_save([m EXCEPT !.store = offsets])

-----------------------------------------------------------------------------
(* states/calibration.py                                                   *)

RECURSIVE calibration_lift_keeps_flag(_, _, _)
\* the loop of phase 1 without "all_legs_up = False"
calibration_lift_keeps_flag(m, i, all_legs_up) ==
    IF i > 5 THEN [m |-> m, all_legs_up |-> all_legs_up]
    ELSE
    LET cur == points(m)[i]
    IN  IF cur.z < m.cal.in_between_z
        THEN LET next_z == lerp(cur.z, m.cal.in_between_z + 2 * Unit, 3)
             IN  Then(move_to_pos(m, i, Vector3(cur.x, cur.y, next_z)), LAMBDA m1 :
                      calibration_lift_keeps_flag(m1, i + 1, all_legs_up))
        ELSE calibration_lift_keeps_flag(m, i + 1, all_legs_up)

RECURSIVE calibration_lift(_, _, _)
\* the loop of phase 1; gives the machine and all_legs_up
calibration_lift(m, i, all_legs_up) ==
    IF i > 5 THEN [m |-> m, all_legs_up |-> all_legs_up]
    ELSE
    LET cur == points(m)[i]
    IN  IF cur.z < m.cal.in_between_z
        THEN LET next_z == lerp(cur.z, m.cal.in_between_z + 2 * Unit, 3)
             IN  Then(move_to_pos(m, i, Vector3(cur.x, cur.y, next_z)), LAMBDA m1 :
                      calibration_lift(m1, i + 1, FALSE))
        ELSE calibration_lift(m, i + 1, all_legs_up)

\* one coordinate of the 5 mm step toward the calibration pose
step5(current, target) ==
    IF current < target THEN Min(current + 5 * Unit, target)
                        ELSE Max(current - 5 * Unit, target)

RECURSIVE calibration_approach_keeps_height(_, _, _)
\* the loop of phase 2 with next_z = current.z
calibration_approach_keeps_height(m, i, all_at_target) ==
    IF i > 5 THEN [m |-> m, all_at_target |-> all_at_target]
    ELSE
    LET current == points(m)[i]
        target == m.cal.target_calibration
        new_pos == Vector3(step5(current.x, target.x),
                           step5(current.y, target.y),
                           current.z)
    IN  Then(move_to_pos(m, i, new_pos), LAMBDA m1 :
            calibration_approach_keeps_height(m1, i + 1,
                                 IF ~distance_leq(current, target, 5 * Unit)
                                 THEN FALSE ELSE all_at_target))

RECURSIVE calibration_approach(_, _, _)
\* the loop of phase 2; gives the machine and all_at_target
calibration_approach(m, i, all_at_target) ==
    IF i > 5 THEN [m |-> m, all_at_target |-> all_at_target]
    ELSE
    LET current == points(m)[i]
        target == m.cal.target_calibration
        new_pos == Vector3(step5(current.x, target.x),
                           step5(current.y, target.y),
                           step5(current.z, target.z))
    IN  Then(move_to_pos(m, i, new_pos), LAMBDA m1 :
            calibration_approach(m1, i + 1,
                                 IF ~distance_leq(current, target, 5 * Unit)
                                 THEN FALSE ELSE all_at_target))

\* rc_offsets is [none |-> TRUE] for None or [none |-> FALSE, list |-> ...]
\* update that applies the offsets handed in without comparing them with
\* previous_offsets
CalibrationState_update_always(m, rc_offsets) ==
    LET m0 == IF m.cal.initialized THEN m
              ELSE [m EXCEPT !.cal.initialized = TRUE, !.cal.legs_lifted = FALSE]
    IN  IF ~m0.cal.legs_lifted
        THEN LET r == calibration_lift(m0, 0, TRUE)
             IN  IF r.m.exc # "None" THEN r.m
                 ELSE IF r.all_legs_up
                      THEN [r.m EXCEPT !.cal.legs_lifted = TRUE, !.ret = "False"]
                      ELSE [r.m EXCEPT !.ret = "False"]
        ELSE
        LET m1 == IF ~rc_offsets.none /\ Len(rc_offsets.list) = 18
                  THEN set_raw_offsets([m0 EXCEPT !.cal.previous_offsets = rc_offsets.list],
                                       rc_offsets.list)
                  ELSE m0
            r == calibration_approach(m1, 0, TRUE)
        IN  IF r.m.exc # "None" THEN r.m
            ELSE [r.m EXCEPT !.ret = IF r.all_at_target THEN "True" ELSE "False"]

CalibrationState_update(m, rc_offsets) ==
    LET m0 == IF m.cal.initialized THEN m
              ELSE [m EXCEPT !.cal.initialized = TRUE, !.cal.legs_lifted = FALSE]
    IN  IF ~m0.cal.legs_lifted
        THEN LET r == calibration_lift(m0, 0, TRUE)
             IN  IF r.m.exc # "None" THEN r.m
                 ELSE IF r.all_legs_up
                      THEN [r.m EXCEPT !.cal.legs_lifted = TRUE, !.ret = "False"]
                      ELSE [r.m EXCEPT !.ret = "False"]
        ELSE
        LET m1 == IF ~rc_offsets.none /\ Len(rc_offsets.list) = 18
                     /\ rc_offsets.list # m0.cal.previous_offsets
                  THEN set_raw_offsets([m0 EXCEPT !.cal.previous_offsets = rc_offsets.list],
                                       rc_offsets.list)
                  ELSE m0
            r == calibration_approach(m1, 0, TRUE)
        IN  IF r.m.exc # "None" THEN r.m
            ELSE [r.m EXCEPT !.ret = IF r.all_at_target THEN "True" ELSE "False"]

\* adjust_offset without the constraint to -30 .. 30
CalibrationState_adjust_offset_unclamped(m, leg, joint, delta) ==
    IF leg < 0 \/ leg > 5 THEN [m EXCEPT !.ret = "None"]
    ELSE IF joint < 0 \/ joint > 2 THEN [m EXCEPT !.ret = "None"]
    ELSE LET offsets == get_raw_offsets(m)
             offset_index == leg * 3 + joint
         IN  set_raw_offsets(m, [offsets EXCEPT ![offset_index + 1] = @ + delta])

CalibrationState_adjust_offset(m, leg, joint, delta) ==
    IF leg < 0 \/ leg > 5 THEN [m EXCEPT !.ret = "None"]
    ELSE IF joint < 0 \/ joint > 2 THEN [m EXCEPT !.ret = "None"]
    ELSE LET offsets == get_raw_offsets(m)
             offset_index == leg * 3 + joint
             v == Max(-30, Min(30, offsets[offset_index + 1] + delta))
         IN  set_raw_offsets(m, [offsets EXCEPT ![offset_index + 1] = v])

CalibrationState_load_offsets(m) ==
    LET r == storage_load_offsets(m)
    IN  [set_raw_offsets(r.m, r.offsets) EXCEPT !.ret = "offsets"]

CalibrationState_reset_offsets(m) == set_raw_offsets(m, Zero18)

CalibrationState_reset(m) ==
    [m EXCEPT !.cal.initialized = FALSE, !.cal.legs_lifted = FALSE, !.ret = "None"]

-----------------------------------------------------------------------------
(* states/walking.py                                                       *)

\* Vector2.magnitude
magnitude(v) == fsqrt(fadd(fmul(v.x.mag, v.x.mag), fmul(v.y.mag, v.y.mag)))

\* rotation about pivot in the XY plane, angle_deg in whole degrees -90 .. 90
rotate_point(point, angle_deg, pivot) ==
    LET cos_a == CosTable[Abs(angle_deg) + 1]
        sin_p == CosTable[90 - Abs(angle_deg) + 1]
        sin_a == IF angle_deg < 0 THEN -sin_p ELSE sin_p
        x == point.x - pivot.x
        y == point.y - pivot.y
    IN  Vector3((x * cos_a - y * sin_a) \div 10000 + pivot.x,
                (x * sin_a + y * cos_a) \div 10000 + pivot.y,
                point.z)

\* (straight_point * abs(forward_amount) + rotate_point * abs(turn_amount))
\* / weight_sum, the weights in thousandths
gait_blend(straight_point, rotate_pt, fa, ta, weight_sum) ==
    Vector3((straight_point.x * fa + rotate_pt.x * ta) \div weight_sum,
            (straight_point.y * fa + rotate_pt.y * ta) \div weight_sum,
            (straight_point.z * fa + rotate_pt.z * ta) \div weight_sum)

\* gives the machine (leg_states and cycle_start_points of the leg are
\* written), the target position returned and the point of the straight
\* path it was blended from.  The curve parameter map_float(t, ...) is taken
\* in tenths.
get_gait_point(m, leg, push_fraction, joy1_current, joy2_current) ==
    LET w == m.walk
        g == FixedOf(w.global_speed_multiplier, 1000)
        rotate_stride_length ==
            (SFixedOf(joy2_current.x, 1000) * w.global_rotation_multiplier) \div 100000
        vy == constrain((SFixedOf(joy1_current.y, 1000) * w.stride_length_multiplier) \div 1000,
                        -(w.max_stride_length \div 2), w.max_stride_length \div 2)
        v == Vector2((SFixedOf(joy1_current.x, 1000) * g) \div 10000, (vy * g) \div 1000)
        fa == FixedOf(w.forward_amount, 1000)
        ta == FixedOf(w.turn_amount.mag, 1000)
        weight_sum == IF fa + ta = 0 THEN 1000 ELSE fa + ta
        t == w.t_array[leg]
        stride == STRIDE_MULTIPLIER[leg + 1]
        angle == 56 * ROTATION_MULTIPLIER[leg + 1]
        pivot == Vector2(DISTANCE_FROM_CENTER, 0)
        ground == w.distance_from_ground
        lift == (LIFT_HEIGHT * w.lift_height_multiplier) \div 100
    IN  IF t < push_fraction
        THEN \* propelling: the leg is on the ground, pushing
            LET start == IF w.leg_states[leg] # "Propelling" THEN points(m)[leg]
                         ELSE w.cycle_start_points[leg]
                tn == (10 * t) \div push_fraction
                target_point == Vector3(v.x * stride + DISTANCE_FROM_CENTER, -v.y * stride, ground)
                straight_point == get_point_on_bezier_curve(
                    <<start, rotate_point(target_point, angle, pivot)>>, 2, tn, 10)
                rotate_pt == get_point_on_bezier_curve(
                    <<start,
                      Vector3(DISTANCE_FROM_CENTER + 40 * Unit, 0, ground),
                      Vector3(DISTANCE_FROM_CENTER, rotate_stride_length, ground)>>, 3, tn, 10)
            IN  [m   |-> [m EXCEPT !.walk.cycle_start_points[leg] = start,
                                   !.walk.leg_states[leg] = "Propelling"],
                 pos |-> gait_blend(straight_point, rotate_pt, fa, ta, weight_sum),
                 straight |-> straight_point]
        ELSE \* lifting: the leg is in the air, moving forward
            LET start == IF w.leg_states[leg] # "Lifting" THEN points(m)[leg]
                         ELSE w.cycle_start_points[leg]
                tn == (10 * (t - push_fraction)) \div (1000000 - push_fraction)
                raised == Vector3(start.x, start.y, start.z + lift)
                mid_point == Vector3(-v.x * stride + DISTANCE_FROM_CENTER,
                                     (v.y + STRIDE_OVERSHOOT) * stride,
                                     ground + LAND_HEIGHT)
                end_point == Vector3(-v.x * stride + DISTANCE_FROM_CENTER, v.y * stride, ground)
                straight_point == get_point_on_bezier_curve(
                    <<start, raised, rotate_point(mid_point, angle, pivot),
                      rotate_point(end_point, angle, pivot)>>, 4, tn, 10)
                rotate_pt == get_point_on_bezier_curve(
                    <<start, raised,
                      Vector3(DISTANCE_FROM_CENTER + 40 * Unit, 0, ground + lift),
                      Vector3(DISTANCE_FROM_CENTER, -(rotate_stride_length + STRIDE_OVERSHOOT),
                              ground + LAND_HEIGHT),
                      Vector3(DISTANCE_FROM_CENTER, -rotate_stride_length, ground)>>, 5, tn, 10)
            IN  [m   |-> [m EXCEPT !.walk.cycle_start_points[leg] = start,
                                   !.walk.leg_states[leg] = "Lifting"],
                 pos |-> gait_blend(straight_point, rotate_pt, fa, ta, weight_sum),
                 straight |-> straight_point]

RECURSIVE walk_move_legs_snapshot(_, _, _, _)
\* the loop with the start point of the leg taken anew on every tick
walk_move_legs_snapshot(m, joy1_current, joy2_current, leg) ==
    IF leg > 5 \/ m.exc # "None" THEN m
    ELSE Then(get_gait_point([m EXCEPT !.walk.leg_states[leg] = "Reset"], leg,
                             m.walk.push_fraction, joy1_current, joy2_current),
              LAMBDA r :
         Then(move_to_pos(r.m, leg, r.pos), LAMBDA m1 :
              walk_move_legs_snapshot(m1, joy1_current, joy2_current, leg + 1)))

RECURSIVE walk_move_legs(_, _, _, _)
\* the "Move all legs to their gait positions" loop, from leg on
walk_move_legs(m, joy1_current, joy2_current, leg) ==
    IF leg > 5 \/ m.exc # "None" THEN m
    ELSE Then(get_gait_point(m, leg, m.walk.push_fraction, joy1_current, joy2_current),
              LAMBDA r :
         Then(move_to_pos(r.m, leg, r.pos), LAMBDA m1 :
             walk_move_legs(m1, joy1_current, joy2_current, leg + 1)))

\* an "Update cycle progress" loop that advances leg 0 only
advance_cycle_one_leg(cycle_progress, progress_change, pts) ==
    [i \in Legs |->
        IF i # 0 THEN cycle_progress[i]
        ELSE Then(fadd(cycle_progress[i], progress_change), LAMBDA c :
                 IF fge(c, pts) THEN fsub(c, pts) ELSE c)]

\* an "Update cycle progress" loop that adds without wrapping at the end
\* of the cycle
advance_cycle_no_wrap(cycle_progress, progress_change, pts) ==
    [i \in Legs |-> fadd(cycle_progress[i], progress_change)]

\* the "Update cycle progress" loop over the list of six phases
advance_cycle(cycle_progress, progress_change, pts) ==
    [i \in Legs |->
        Then(fadd(cycle_progress[i], progress_change), LAMBDA c :
            IF fge(c, pts) THEN fsub(c, pts) ELSE c)]

\* the head of update: the global parameters, the t values and the
\* movement amounts
walk_parameters(m, joy1_current, joy2_current, slider1, distance_from_ground) ==
    [m EXCEPT
        !.walk.global_speed_multiplier = fmul(fadd(slider1, Float(10)), Float_0_01),
        !.walk.global_rotation_multiplier = (FixedOf(slider1, 100) * 90) \div 100 + 4000,
        !.walk.distance_from_ground = distance_from_ground,
        !.walk.t_array = [i \in Legs |-> FixedOf(m.walk.cycle_progress[i], 1000)],
        !.walk.forward_amount = magnitude(joy1_current),
        !.walk.turn_amount = joy2_current.x]

WalkingState_update(m, joy1_current, joy2_current, slider1, distance_from_ground) ==
    IF m.exc # "None" THEN m
    ELSE
    Then(walk_parameters(m, joy1_current, joy2_current, slider1, distance_from_ground),
         LAMBDA m0 :
    Then(walk_move_legs(m0, joy1_current, joy2_current, 0), LAMBDA m1 :
        IF m1.exc # "None" THEN m1
        ELSE
        Then(fconstrain(fmul(fmul(fmul(fmax(m0.walk.forward_amount, joy2_current.x.mag),
                                       m1.walk.speed_multiplier), Float(20)),
                             m0.walk.global_speed_multiplier),
                        Float(0), fmul(m1.walk.max_speed, m0.walk.global_speed_multiplier)),
             LAMBDA progress_change :
            [m1 EXCEPT !.walk.cycle_progress =
                          advance_cycle(m1.walk.cycle_progress, progress_change, Float(POINTS)),
                       !.ret = "None"])))

WalkingState_reset(m) ==
    [m EXCEPT !.walk.t_array = [i \in Legs |-> 0],
              !.walk.cycle_progress = [i \in Legs |-> Float(0)],
              !.walk.leg_states = [i \in Legs |-> "Reset"],
              !.walk.cycle_start_points = points(m),
              !.walk.forward_amount = Float(0),
              !.walk.turn_amount = SFloat(FALSE, Float(0)),
              !.ret = "None"]

-----------------------------------------------------------------------------
(* states/attacks.py                                                       *)

\* AttacksState.set_cycle_start_points
attack_set_cycle_start_points(m) ==
    IF m.exc # "None" THEN m
    ELSE [m EXCEPT !.atk.cycle_start_points = points(m)]

\* Vector3(...).rotate(angle, pivot): class Vector3 (utils/vectors.py) defines
\* no method rotate, so the attribute lookup raises
Vector3_rotate(m) == IF m.exc # "None" THEN m ELSE [m EXCEPT !.exc = "AttributeError"]

\* _get_foot_placement_path_point, _get_leap_path_point and
\* _get_slam_path_point for frame i of frames: each builds its end point with
\* Vector3(...).rotate(...) before it evaluates the curve, on every path
\* through it (the three branches of _get_slam_path_point included).  They
\* give the machine and the point returned.
get_foot_placement_path_point(m, leg, i, frames) ==
    [m |-> Vector3_rotate(m), pos |-> m.atk.cycle_start_points[leg]]

get_leap_path_point(m, leg, i, frames) ==
    [m |-> Vector3_rotate(m), pos |-> m.atk.cycle_start_points[leg]]

get_slam_path_point(m, leg, i, frames) ==
    [m |-> Vector3_rotate(m), pos |-> m.atk.cycle_start_points[leg]]

RECURSIVE attack_place_legs(_, _, _, _)
\* the "for leg in range(6)" loop of a phase-1 frame, from leg on
attack_place_legs(m, leg, i, frames) ==
    IF leg > 5 \/ m.exc # "None" THEN m
    ELSE Then(get_foot_placement_path_point(m, leg, i, frames), LAMBDA r :
             IF r.m.exc # "None" THEN r.m
             ELSE attack_place_legs(move_to_pos(r.m, leg, r.pos), leg + 1, i, frames))

RECURSIVE attack_phase1(_, _, _)
\* phase 1, from frame i on
attack_phase1(m, i, frames) ==
    IF i >= frames \/ m.exc # "None" THEN m
    ELSE attack_phase1(attack_place_legs(m, 0, i, frames), i + 1, frames)

RECURSIVE attack_leap_legs(_, _, _, _)
\* the moves of a phase-2 frame: legs 0, 1, 4, 5 leap, then legs 2, 3 slam;
\* k is the position in that order
attack_leap_legs(m, k, i, frames) ==
    IF k > 6 \/ m.exc # "None" THEN m
    ELSE LET leg == <<0, 1, 4, 5, 2, 3>>[k]
         IN  Then(IF k <= 4 THEN get_leap_path_point(m, leg, i, frames)
                            ELSE get_slam_path_point(m, leg, i, frames), LAMBDA r :
                 IF r.m.exc # "None" THEN r.m
                 ELSE attack_leap_legs(move_to_pos(r.m, leg, r.pos), k + 1, i, frames))

RECURSIVE attack_phase2(_, _, _)
\* phase 2, from frame i on.  t = i / frames is a float quotient; it is at
\* least 0.5 exactly when 2 * i >= frames.
attack_phase2(m, i, frames) ==
    IF i >= frames \/ m.exc # "None" THEN m
    ELSE Then(attack_leap_legs(m, 1, i, frames), LAMBDA m1 :
             IF m1.exc # "None" THEN m1
             ELSE attack_phase2(IF 2 * i >= frames /\ ~m1.atk.slam_started
                                THEN [m1 EXCEPT !.atk.slam_started = TRUE] ELSE m1,
                                i + 1, frames))

\* AttacksState.slam_attack(attack_speed) for a whole attack_speed
AttacksState_slam_attack(m, attack_speed) ==
    IF m.exc # "None" THEN m
    ELSE
    Then([attack_set_cycle_start_points(m) EXCEPT !.atk.slam_started = FALSE], LAMBDA m0 :
    Then(attack_phase1(m0, 0, FixedOf(fmul(Float(attack_speed), Float_0_4), 1)), LAMBDA m1 :
    Then(attack_phase2(attack_set_cycle_start_points(m1), 0,
                       FixedOf(fmul(Float(attack_speed), Float_1_2), 1)), LAMBDA m2 :
        IF m2.exc # "None" THEN m2
        ELSE [attack_set_cycle_start_points(m2) EXCEPT !.ret = "True"])))

-----------------------------------------------------------------------------
(* Inverse kinematics on its own: move_to_pos called on a fresh solver     *)

MaxIKCalls == 1

IKCoordX == {0, 4600, 20000, 35400, 35401, 36000}
IKCoordY == {0, 4600, -12000}
IKCoordZ == {0, -5000, 100}
IKTargets == {Vector3(x, y, z) : x \in IKCoordX, y \in IKCoordY, z \in IKCoordZ}

InitIK == \E attached \in BOOLEAN : Start(IF attached THEN attach_servos(Fresh) ELSE Fresh)

IKMove ==
    /\ call.n < MaxIKCalls
    /\ \E leg \in Legs, pos \in IKTargets :
          Commit([Call("move_to_pos") EXCEPT !.leg = leg, !.pos = pos, !.n = call.n + 1],
                 move_to_pos(Machine, leg, pos))

NextIK == IKMove

SpecIK == InitIK /\ [][NextIK]_vars

\* the squared distance of a target from the leg origin, in Unit^2
SqDist(pos) == pos.x * pos.x + pos.y * pos.y + pos.z * pos.z

\* C3: a move_to_pos call whose target lies farther than a1+a2+a3 from the
\* leg origin returns False and leaves the servo controller untouched: no
\* write_leg_servos call and no change of any cached servo angle.
C3_UnreachableNoCommand ==
    [][(call'.op = "move_to_pos" /\ call'.n = call.n + 1
        /\ SqDist(call'.pos) > LEG_LENGTH * LEG_LENGTH)
       => (/\ call'.ret = "False"
           /\ call'.exc = "None"
           /\ call'.log = << >>
           /\ servo_controller' = servo_controller)]_vars

C3_Witness ==
    /\ call.op = "move_to_pos"
    /\ SqDist(call.pos) > LEG_LENGTH * LEG_LENGTH
    /\ call.ret = "False"
    /\ kinematics.current_points[call.leg] = call.pos

\* C4: every move_to_pos call whose target lies within a1+a2+a3 of the leg
\* origin completes without raising, returns True and issues exactly one
\* servo command carrying three angles.
C4_ReachableSolves ==
    (call.op = "move_to_pos" /\ SqDist(call.pos) <= LEG_LENGTH * LEG_LENGTH)
    => (/\ call.exc = "None"
        /\ call.ret = "True"
        /\ Len(call.log) = 1
        /\ \A j \in 1 .. 3 : call.log[1].angles[j] \in 0 .. 18000)

-----------------------------------------------------------------------------
(* The stand controller on its own                                         *)

StandPose == Vector3(DISTANCE_FROM_CENTER, 0, DISTANCE_FROM_GROUND_BASE)
SleepPose == SleepInit.target_sleep_position

\* leg positions a stand transition can start from: mid-stride of a tripod
\* walk, and six different heights
StandStarts ==
    { [i \in Legs |-> IF i % 2 = 0 THEN Vector3(18300, 3000, -6000)
                                   ELSE Vector3(16300, -3000, -1000)],
      [i \in Legs |-> Vector3(17300 + 500 * i, 1000, -6000 + 800 * i)] }

StandHeights == {DISTANCE_FROM_GROUND_BASE}
StandFromStates == {"Car", "Sleep"}

InitStand == \E P \in StandStarts, sh \in BOOLEAN : Start(Setup(P, sh))

StandUpdate ==
    /\ \E h \in StandHeights, from_state \in StandFromStates,
          move_all_at_once \in BOOLEAN, high_lift \in {FALSE} :
        Commit([Call("StandingState.update") EXCEPT
                    !.arg = <<from_state, move_all_at_once, high_lift>>],
               StandingState_update(Machine, h, 0, from_state, move_all_at_once, high_lift))

StandReset ==
    /\ Commit(Call("StandingState.reset"), StandingState_reset(Machine))

NextStand == StandUpdate \/ StandReset

SpecStand == InitStand /\ [][NextStand]_vars

\* the legs whose commanded position differs before and after a step
MovedLegs == {i \in Legs : kinematics'.current_points[i] # kinematics.current_points[i]}

\* C1: in no tick of StandingState.update are more than three legs moved
\* off the position they held when the tick began.
C1_AtMostThreeLegsMove ==
    [][call'.op = "StandingState.update" => Cardinality(MovedLegs) <= 3]_vars

\* C15: a stand transition entered from Calibrate, Initialize, SlamAttack or
\* Sleep moves all six legs along their curves on every tick, not only on
\* the first: the tick after the entry tick (stand_progress 20 in the first
\* pass), called like the entry tick with move_all_at_once left at its
\* default, commands the six legs in the transition block and the six
\* again in the maintain loop, and no tick ends a first pass of two.
C15_AllAtOnceHolds ==
    [][(/\ call.op = "StandingState.update"
        /\ call.exc = "None"
        /\ call.arg[1] \in {"Calibrate", "Initialize", "SlamAttack", "Sleep"}
        /\ standing_state.initialized
        /\ standing_state.stand_loops = 0
        /\ standing_state.stand_progress = 20
        /\ call'.op = "StandingState.update"
        /\ call'.arg = <<call.arg[1], FALSE, FALSE>>)
         => /\ Len(call'.log) = 12
            /\ standing_state'.stand_loops # 1]_vars

-----------------------------------------------------------------------------
(* The sleep controller on its own                                         *)

SleepStarts ==
    { [i \in Legs |-> StandPose],
      [i \in Legs |-> SleepPose],
      [i \in Legs |-> Vector3(13050, 0, -4600 - 10 * i)],
      [i \in Legs |-> IF i < 3 THEN SleepPose ELSE Vector3(15000, 2000, -5000)] }

InitSleep == \E P \in SleepStarts, sh \in BOOLEAN : Start(Setup(P, sh))

SleepUpdate ==
    /\ \E m \in {SleepState_update(Machine)} : Commit(Call("SleepState.update"), m)

SleepWakeUp ==
    /\ \E m \in {SleepState_wake_up(Machine)} : Commit(Call("SleepState.wake_up"), m)

SleepReset ==
    /\ \E m \in {SleepState_reset(Machine)} : Commit(Call("SleepState.reset"), m)

NextSleep == SleepUpdate \/ SleepWakeUp \/ SleepReset

SpecSleep == InitSleep /\ [][NextSleep]_vars

\* every leg, as the sleep controller reads it, is exactly on the sleep pose
AllOnSleepPose == \A i \in Legs : current_points[i] = sleep_state.target_sleep_position

\* C6: the update tick that leaves every leg exactly on the sleep pose moves
\* the controller to phase 2, and an update tick that starts in phase 2
\* detaches the servos, sets servos_detached and phase 3 and returns True.
C6_DetachAfterArrival ==
    [][call'.op = "SleepState.update" =>
        /\ (sleep_state.sleep_state = 1 /\ servo_controller.servos_attached /\ AllOnSleepPose')
                => sleep_state'.sleep_state = 2
        /\ (sleep_state.initialized /\ sleep_state.sleep_state = 2
             /\ servo_controller.servos_attached)
                => (/\ ~servo_controller'.servos_attached
                    /\ sleep_state'.servos_detached
                    /\ sleep_state'.sleep_state = 3
                    /\ call'.ret = "True")]_vars

\* C16: wake_up called while servos_detached is False does not call
\* attach_servos, changes no SleepState field and returns False
C16_WakeUpAwakeNoOp ==
    [][(call'.op = "SleepState.wake_up" /\ ~sleep_state.servos_detached)
         => /\ sleep_state' = sleep_state
            /\ servo_controller' = servo_controller
            /\ call'.log = << >>
            /\ call'.ret = "False"]_vars

\* wake_up has returned from a call made while awake, in a controller that
\* update had initialized
C16_Witness ==
    /\ call.op = "SleepState.wake_up"
    /\ call.ret = "False"
    /\ sleep_state.initialized
    /\ ~sleep_state.servos_detached

\* The sleep controller as enter_sleep_mode makes it
InitSleepMode ==
    \E P \in SleepStarts, sh, smooth \in BOOLEAN :
        Start(enter_sleep_mode(Setup(P, sh), smooth))

NextSleepMode == SleepUpdate \/ SleepWakeUp \/ SleepReset

SpecSleepMode == InitSleepMode /\ [][NextSleepMode]_vars

\* C17: whenever wake_up is called while the servo controller is detached,
\* the servos are attached when it returns
C17_WakeUpReattaches ==
    [][(call'.op = "SleepState.wake_up" /\ ~servo_controller.servos_attached)
         => servo_controller'.servos_attached]_vars

\* Repeated update ticks, each reading the positions the previous one commanded
InitSleepLoop == \E P \in SleepStarts : Start(Setup(P, TRUE))

\* One tick of the control loop in the sleep state; call.n alternates
\* between 0 and 1 so that two consecutive ticks are always different steps.
SleepLoopTick ==
    /\ \E m \in {SleepState_update(Machine)} :
          Commit([Call("SleepState.update") EXCEPT !.n = 1 - call.n], m)

\* the loop calls update on every tick and never stops on its own
SpecSleepLoop == InitSleepLoop /\ [][SleepLoopTick]_vars /\ WF_vars(SleepLoopTick)

\* C7: repeated update ticks eventually put every leg on the sleep pose and
\* then detach the servos, so that update returns True.
C7_EventuallyAsleep ==
    <>(/\ call.op = "SleepState.update"
       /\ call.ret = "True"
       /\ ~servo_controller.servos_attached
       /\ AllOnSleepPose)

-----------------------------------------------------------------------------
(* The calibration controller on its own                                   *)

CalStarts ==
    { [i \in Legs |-> StandPose],
      [i \in Legs |-> Vector3(15000, 0, -5000)],
      [i \in Legs |-> IF i = 4 THEN Vector3(15000, 0, -2010) ELSE Vector3(15000, 0, -2000)],
      [i \in Legs |-> Vector3(15000, 0, -1500)] }

NoOffsets == [none |-> TRUE, list |-> << >>]
RcOffsets ==
    { NoOffsets,
      [none |-> FALSE, list |-> Zero18],
      [none |-> FALSE, list |-> [i \in 1 .. 18 |-> 3]],
      [none |-> FALSE, list |-> [i \in 1 .. 16 |-> 3]] }

InitCal == \E P \in CalStarts, sh \in BOOLEAN : Start(Setup(P, sh))

CalUpdate ==
    /\ \E rc \in RcOffsets :
        Commit([Call("CalibrationState.update") EXCEPT !.arg = rc.list],
               CalibrationState_update(Machine, rc))

CalReset ==
    /\ Commit(Call("CalibrationState.reset"), CalibrationState_reset(Machine))

NextCal == CalUpdate \/ CalReset

SpecCal == InitCal /\ [][NextCal]_vars

\* every leg, as the calibration controller reads it, is at or above the
\* intermediate height
AllLegsUp == \A i \in Legs : current_points[i].z >= calibration_state.in_between_z

\* an update tick that begins in phase 2
Phase2Tick ==
    /\ call'.op = "CalibrationState.update"
    /\ calibration_state.initialized
    /\ calibration_state.legs_lifted

\* an update tick that begins in phase 1
Phase1Tick ==
    /\ call'.op = "CalibrationState.update"
    /\ ~(calibration_state.initialized /\ calibration_state.legs_lifted)

\* C8: a phase-2 tick starts only with every leg's z at or above the
\* intermediate threshold; legs_lifted turns True only on a tick that
\* starts with every leg at or above it; every phase-1 tick returns False
\* and applies no offsets.
C8_NoPhase2BelowThreshold ==
    [][/\ Phase2Tick => AllLegsUp
       /\ (call'.op = "CalibrationState.update"
            /\ calibration_state'.legs_lifted
            /\ ~(calibration_state.initialized /\ calibration_state.legs_lifted))
              => AllLegsUp
       /\ Phase1Tick => (/\ call'.ret = "False"
                         /\ kinematics'.raw_offsets = kinematics.raw_offsets
                         /\ calibration_state'.previous_offsets
                                = calibration_state.previous_offsets)]_vars

\* a phase-2 tick has run after the legs were lifted from below the threshold
C8_Witness ==
    /\ call.op = "CalibrationState.update"
    /\ calibration_state.legs_lifted
    /\ shared
    /\ \E i \in Legs : kinematics.current_points[i].z > 0
    /\ kinematics.raw_offsets # Zero18

\* C18: of two consecutive phase-2 update ticks fed the same 18 offsets
\* (the earlier one is in phase 2 when it has commanded the legs and left
\* the later one in phase 2), the two call set_raw_offsets at most once
\* between them, and the second leaves previous_offsets and the kinematics
\* offsets unchanged.
C18_SameOffsetsAppliedOnce ==
    [][(/\ Phase2Tick
        /\ call.op = "CalibrationState.update"
        /\ call.exc = "None"
        /\ call.log # << >>
        /\ Len(call.arg) = 18
        /\ call'.arg = call.arg)
         => /\ call.sets + call'.sets <= 1
            /\ call'.sets = 0
            /\ calibration_state'.previous_offsets = calibration_state.previous_offsets
            /\ kinematics'.raw_offsets = kinematics.raw_offsets
            /\ kinematics'.offsets = kinematics.offsets]_vars

\* a phase-2 tick has been fed the offsets an earlier tick applied, and has
\* not applied them again
C18_Witness ==
    /\ call.op = "CalibrationState.update"
    /\ call.exc = "None"
    /\ calibration_state.legs_lifted
    /\ Len(call.arg) = 18
    /\ call.arg # Zero18
    /\ call.sets = 0
    /\ calibration_state.previous_offsets = call.arg
    /\ kinematics.raw_offsets = call.arg

-----------------------------------------------------------------------------
(* The calibration offsets                                                 *)

CalibrationPose == CalibrationInit.target_calibration

\* lists offered to set_raw_offsets
OffsetLists ==
    { Zero18,
      [i \in 1 .. 18 |-> 5],
      [i \in 1 .. 16 |-> 5],
      [i \in 1 .. 19 |-> 7] }

\* lists the offsets file can hold
StoredLists == { [i \in 1 .. 16 |-> 5], [i \in 1 .. 19 |-> 7] }

\* (leg, joint, delta) of adjust_offset calls
AdjustArgs == { <<0, 0, 40>>, <<5, 2, -40>>, <<6, 0, 5>> }

InitOffsets ==
    \E stored \in StoredLists :
        Start([Setup([i \in Legs |-> CalibrationPose], FALSE) EXCEPT !.store = stored])

SetRawOffsets ==
    /\ \E offsets \in OffsetLists :
        Commit([Call("set_raw_offsets") EXCEPT !.arg = offsets],
               set_raw_offsets(Machine, offsets))

AdjustOffset ==
    /\ \E a \in AdjustArgs :
        Commit([Call("CalibrationState.adjust_offset") EXCEPT !.arg = a],
               CalibrationState_adjust_offset(Machine, a[1], a[2], a[3]))

LoadOffsets ==
    /\ Commit(Call("CalibrationState.load_offsets"),
              CalibrationState_load_offsets(Machine))

ResetOffsets ==
    /\ Commit(Call("CalibrationState.reset_offsets"),
              CalibrationState_reset_offsets(Machine))

NextOffsets == SetRawOffsets \/ AdjustOffset \/ LoadOffsets \/ ResetOffsets \/ CalUpdate

SpecOffsets == InitOffsets /\ [][NextOffsets]_vars

-----------------------------------------------------------------------------
(* The operations that take a leg or joint index                           *)

\* (leg, joint, delta) of adjust_offset calls, in and out of range
IndexedAdjusts ==
    { <<0, 0, 40>>, <<5, 2, -40>>, <<5, 2, 40>>,
      <<6, 0, 5>>, <<-1, 0, 5>>, <<0, 3, 5>>, <<0, -1, 5>> }

\* leg indices handed to the kinematics
IndexedLegs == {-7, -1, 0, 5, 6}

BeyondReach == Vector3(40000, 0, 0)

\* calls made in one behaviour
MaxIndexedCalls == 3

InitIndexed == InitOffsets

SetOffsetsAt ==
    /\ call.n < MaxIndexedCalls
    /\ \E offsets \in OffsetLists :
        Commit([Call("set_raw_offsets") EXCEPT !.arg = offsets, !.n = call.n + 1],
               set_raw_offsets(Machine, offsets))

AdjustAt ==
    /\ call.n < MaxIndexedCalls
    /\ \E a \in IndexedAdjusts :
        Commit([Call("CalibrationState.adjust_offset") EXCEPT
                    !.arg = a, !.leg = a[1], !.n = call.n + 1],
               CalibrationState_adjust_offset(Machine, a[1], a[2], a[3]))

MoveToPosAt ==
    /\ call.n < MaxIndexedCalls
    /\ \E leg \in IndexedLegs, pos \in {StandPose, BeyondReach} :
        /\ leg < 0 => pos = BeyondReach
        /\ Commit([Call("move_to_pos") EXCEPT
                       !.leg = leg, !.pos = pos, !.arg = <<leg, 0>>, !.n = call.n + 1],
                  move_to_pos_at(Machine, leg, pos))

SetCurrentPosition ==
    /\ call.n < MaxIndexedCalls
    /\ \E leg \in IndexedLegs, pos \in {StandPose, BeyondReach} :
        Commit([Call("set_current_position") EXCEPT
                    !.leg = leg, !.pos = pos, !.arg = <<leg, 0>>, !.n = call.n + 1],
               set_current_position(Machine, leg, pos))

GetCurrentPosition ==
    /\ call.n < MaxIndexedCalls
    /\ \E leg \in IndexedLegs :
        \E r \in {get_current_position(Machine, leg)} :
            Commit([Call("get_current_position") EXCEPT
                        !.leg = leg, !.pos = r.pos, !.arg = <<leg, 0>>, !.n = call.n + 1],
                   r.m)

NextIndexed ==
    SetOffsetsAt \/ AdjustAt \/ MoveToPosAt \/ SetCurrentPosition \/ GetCurrentPosition

SpecIndexed == InitIndexed /\ [][NextIndexed]_vars

\* C19: adjust_offset(leg, joint, delta) with leg in 0..5 and joint in 0..2
\* sets raw offset leg*3+joint to old + delta held within -30 .. 30 and
\* leaves the other 17 raw offsets unchanged
C19_AdjustOneOffset ==
    [][(/\ call'.op = "CalibrationState.adjust_offset"
        /\ call'.arg[1] \in 0 .. 5
        /\ call'.arg[2] \in 0 .. 2)
         => LET k == call'.arg[1] * 3 + call'.arg[2] + 1
                sum == kinematics.raw_offsets[k] + call'.arg[3]
            IN  /\ Len(kinematics'.raw_offsets) = 18
                /\ kinematics'.raw_offsets[k]
                      = (IF sum < -30 THEN -30 ELSE IF sum > 30 THEN 30 ELSE sum)
                /\ \A i \in 1 .. 18 :
                      i # k => kinematics'.raw_offsets[i] = kinematics.raw_offsets[i]]_vars

\* adjust_offset has left an offset strictly inside the range, among other
\* offsets that are not zero
C19_Witness ==
    /\ call.op = "CalibrationState.adjust_offset"
    /\ call.arg = <<5, 2, 40>>
    /\ kinematics.raw_offsets[18] = 10
    /\ kinematics.raw_offsets[2] # 0

\* C21: move_to_pos(leg, pos) with a leg in 0..5 records pos as the leg's
\* current position whether or not pos can be reached, and leaves the
\* recorded positions of the other five legs unchanged
C21_TargetRecorded ==
    [][(call'.op = "move_to_pos" /\ call'.leg \in Legs)
         => /\ kinematics'.current_points[call'.leg] = call'.pos
            /\ \A i \in Legs \ {call'.leg} :
                  kinematics'.current_points[i] = kinematics.current_points[i]]_vars

\* a target beyond reach has been recorded for leg 0 while leg 5 holds a
\* position it was given before
C21_Witness ==
    /\ call.op = "move_to_pos"
    /\ call.leg = 0
    /\ call.ret = "False"
    /\ call.pos = BeyondReach
    /\ kinematics.current_points[0] = BeyondReach
    /\ kinematics.current_points[5] = StandPose

\* the call made in this step hands in a leg outside 0..5 or a joint outside 0..2
OutOfRangeCall ==
    /\ call'.op \in {"CalibrationState.adjust_offset", "move_to_pos",
                     "set_current_position", "get_current_position"}
    /\ (call'.arg[1] \notin 0 .. 5 \/ call'.arg[2] \notin 0 .. 2)

\* C20: an operation given an out-of-range leg or joint index raises
\* nothing and leaves all leg positions, all offsets and all actuator
\* commands unchanged
C20_InvalidIndexNoOp ==
    [][OutOfRangeCall
         => /\ call'.exc = "None"
            /\ kinematics' = kinematics
            /\ current_points' = current_points
            /\ servo_controller' = servo_controller
            /\ call'.log = << >>]_vars

\* the list padded with zeros or cut to exactly 18 entries
Normalized18(l) == [i \in 1 .. 18 |-> IF i <= Len(l) THEN l[i] ELSE 0]

\* the derived offset vectors that belong to a raw offset list
DerivedOffsets(raw) ==
    [i \in Legs |-> Vector3(raw[3 * i + 1] + BASE_OFFSET.x,
                            raw[3 * i + 2] + BASE_OFFSET.y,
                            raw[3 * i + 3] + BASE_OFFSET.z)]

C10_AlwaysEighteen == Len(kinematics.raw_offsets) = 18

\* offsets were loaded from a stored list that was not 18 long
C10_Witness ==
    /\ call.op = "CalibrationState.load_offsets"
    /\ Len(storage) # 18
    /\ Len(kinematics.raw_offsets) = 18
    /\ kinematics.raw_offsets = Normalized18(storage)
    /\ kinematics.raw_offsets # Zero18

-----------------------------------------------------------------------------
(* The gait engine on its own: set_gait and update after setup             *)

\* set_gait and update calls made in one behaviour
MaxWalkCalls == 3

Zero2 == Vector2(SFloat(FALSE, Float(0)), SFloat(FALSE, Float(0)))

\* update arguments: a slow walk, a stick far beyond 1.0 (the phase advance
\* is clamped to max_speed and wraps within a few ticks), a turn on the
\* spot, a diagonal walk with a turn, and no command at all
WalkInputs ==
    { [joy1 |-> Vector2(SFloat(FALSE, Float(0)), SFloat(FALSE, Float_0_3)),
       joy2 |-> Zero2, slider1 |-> Float(50)],
      [joy1 |-> Vector2(SFloat(FALSE, Float(0)), SFloat(FALSE, Float(30))),
       joy2 |-> Zero2, slider1 |-> Float(90)],
      [joy1 |-> Zero2,
       joy2 |-> Vector2(SFloat(TRUE, Float_0_4), SFloat(FALSE, Float(0))),
       slider1 |-> Float(50)],
      [joy1 |-> Vector2(SFloat(TRUE, Float_0_3), SFloat(FALSE, Float_0_4)),
       joy2 |-> Vector2(SFloat(FALSE, Float_0_1), SFloat(FALSE, Float(0))),
       slider1 |-> Float(100)],
      [joy1 |-> Zero2, joy2 |-> Zero2, slider1 |-> Float(0)] }

InitGait == Start(Setup([i \in Legs |-> StandPose], FALSE))

SetGait ==
    /\ call.n < MaxWalkCalls
    /\ \E gait \in Gaits :
          Commit([Call("WalkingState.set_gait") EXCEPT !.arg = <<gait>>, !.n = call.n + 1],
                 WalkingState_set_gait(Machine, gait))

WalkUpdate ==
    /\ call.n < MaxWalkCalls
    /\ \E in \in WalkInputs :
          \E m \in {WalkingState_update(Machine, in.joy1, in.joy2, in.slider1,
                                        DISTANCE_FROM_GROUND_BASE)} :
             Commit([Call("WalkingState.update") EXCEPT !.arg = <<in>>, !.n = call.n + 1], m)

NextGait == SetGait \/ WalkUpdate

SpecGait == InitGait /\ [][NextGait]_vars

RECURSIVE PhaseMod(_)
\* x mod POINTS for an exact phase x (a multiple of 2^-FracBits)
PhaseMod(x) ==
    IF BigCmp(x, Float(POINTS)) >= 0 THEN PhaseMod(BigSub(x, Float(POINTS))) ELSE x

\* (a - b) mod POINTS, exactly
PhaseDiff(a, b) ==
    IF BigCmp(a, b) >= 0 THEN PhaseMod(BigSub(a, b))
    ELSE PhaseMod(BigSub(Float(POINTS), PhaseMod(BigSub(b, a))))

\* the distance of two phases on the circle of length POINTS
PhaseDist(p, q) ==
    Then(IF BigCmp(p, q) >= 0 THEN BigSub(p, q) ELSE BigSub(q, p), LAMBDA d :
        Then(BigSub(Float(POINTS), d), LAMBDA e :
            IF BigCmp(d, e) <= 0 THEN d ELSE e))

\* the distance on the circle of the phase differences (a - b) and (c - d)
PhaseDrift(a, b, c, d) ==
    Then(PhaseDiff(a, b), LAMBDA p :
        Then(PhaseDiff(c, d), LAMBDA q : PhaseDist(p, q)))

\* 2^-42: the spacing of the floats in [1024, 2048), twice the largest
\* rounding error of one cycle_progress sum below 2048
RoundingStep == BigShl(<<1>>, FracBits - 42)

\* legs 0, 2, 4 share one phase and legs 1, 3, 5 share one phase
TripodGroupsEqual ==
    LET cp == walking_state.cycle_progress
    IN  cp[0] = cp[2] /\ cp[2] = cp[4] /\ cp[1] = cp[3] /\ cp[3] = cp[5]

\* this step is an update tick that returned
WalkTick ==
    call'.op = "WalkingState.update" /\ call'.n = call.n + 1 /\ call'.exc = "None"

\* (a - b) % POINTS as Python evaluates it on two phases in [0, POINTS)
float_phase_diff(a, b) ==
    IF fge(a, b) THEN fsub(a, b) ELSE fsub(Float(POINTS), fsub(b, a))

\* C2 as stated: after set_gait(TRI) and any number of update ticks legs
\* 0, 2, 4 have one cycle_progress, legs 1, 3, 5 have one cycle_progress and
\* the two differ by exactly POINTS/2 modulo POINTS; and for every gait an
\* update leaves every pairwise phase difference
\* (cycle_progress[i] - cycle_progress[j]) mod POINTS unchanged.  The
\* differences are taken as Python computes them.
C2_PhaseLockExact ==
    /\ [](walking_state.current_gait = "TRI"
            => /\ TripodGroupsEqual
               /\ float_phase_diff(walking_state.cycle_progress[1],
                                   walking_state.cycle_progress[0])
                    = Float(POINTS \div 2))
    /\ [][WalkTick =>
            \A i, j \in Legs :
               float_phase_diff(walking_state.cycle_progress[i]', walking_state.cycle_progress[j]')
                 = float_phase_diff(walking_state.cycle_progress[i], walking_state.cycle_progress[j])]_vars

\* C2, amended (the differences are exact, not rounded):
\* after set_gait(TRI) and any number of update ticks legs
\* 0, 2, 4 have one cycle_progress and legs 1, 3, 5 have one cycle_progress;
\* the two differ by POINTS/2 modulo POINTS up to the rounding of the float
\* sums, at most 2^-42 for every tick made; and for every gait an update
\* keeps legs of equal cycle_progress equal and moves every pairwise phase
\* difference by at most 2^-42.
C2_PhaseLockRounded ==
    /\ [](walking_state.current_gait = "TRI"
            => /\ TripodGroupsEqual
               /\ BigCmp(PhaseDrift(walking_state.cycle_progress[1],
                                    walking_state.cycle_progress[0],
                                    Float(POINTS \div 2), Float(0)),
                         BigScale(RoundingStep, call.n)) <= 0)
    /\ [][WalkTick =>
            \A i, j \in Legs :
               /\ walking_state.cycle_progress[i] = walking_state.cycle_progress[j]
                    => walking_state.cycle_progress[i]' = walking_state.cycle_progress[j]'
               /\ BigCmp(PhaseDrift(walking_state.cycle_progress[i]',
                                    walking_state.cycle_progress[j]',
                                    walking_state.cycle_progress[i],
                                    walking_state.cycle_progress[j]),
                         RoundingStep) <= 0]_vars

\* an update tick in the tripod gait after which the two groups are each of
\* one phase but their difference, as Python computes it, is not POINTS/2
C2_Witness ==
    /\ call.op = "WalkingState.update"
    /\ call.exc = "None"
    /\ walking_state.current_gait = "TRI"
    /\ TripodGroupsEqual
    /\ float_phase_diff(walking_state.cycle_progress[1], walking_state.cycle_progress[0])
         # Float(POINTS \div 2)

\* C13: set_gait called with the gait that is already current leaves the
\* cycle_progress of all six legs and all leg sub-states unchanged
C13_SameGaitKeepsPhase ==
    [][(call'.op = "WalkingState.set_gait" /\ call'.arg[1] = walking_state.current_gait)
         => /\ walking_state'.cycle_progress = walking_state.cycle_progress
            /\ walking_state'.leg_states = walking_state.leg_states]_vars

\* C14: with no translation and no rotation commanded, get_gait_point
\* returns the point of the straight path, for a propelling leg and for a
\* lifting leg
C14_ZeroCommandStraight ==
    [][\A in \in WalkInputs :
          (call'.op = "WalkingState.update" /\ call'.arg = <<in>>
             /\ magnitude(in.joy1) = Float(0) /\ in.joy2.x.mag = Float(0))
            => \A leg \in Legs :
                  LET r == get_gait_point(
                               walk_parameters(Machine, in.joy1, in.joy2, in.slider1,
                                               DISTANCE_FROM_GROUND_BASE),
                               leg, walking_state.push_fraction, in.joy1, in.joy2)
                  IN  r.pos = r.straight]_vars

-----------------------------------------------------------------------------
(* main.py: the controller and one pass of its loop                        *)

\* config.Gait by value
GaitOfIndex == <<"TRI", "RIPPLE", "WAVE", "QUAD", "BI", "HOP">>

\* scalar lerp a * (1.0 - f) + (b * f) on floats
lerp_float(a, b, f) ==
    sfadd(sfmul(a, SFloat(FALSE, fsub(Float(1), f))), sfmul(b, SFloat(FALSE, f)))

\* lerp of two Vector2
lerp2(a, b, f) == Vector2(lerp_float(a.x, b.x, f), lerp_float(a.y, b.y, f))

\* CRSFReceiver.update.  rx is what the serial port holds at this tick: no
\* frame, no frame for longer than timeout_seconds, or a channel frame given
\* by the control values _update_control_values takes from it.  The port is
\* read only after connect() has opened it.
CRSFReceiver_update(m, rx) ==
    IF ~m.ctl.receiver.connected \/ ~m.ctl.receiver.serial THEN [m EXCEPT !.ret = "False"]
    ELSE IF rx.kind = "frame"
    THEN [m EXCEPT !.ctl.receiver.joystick1_x = rx.joystick1_x,
                   !.ctl.receiver.joystick1_y = rx.joystick1_y,
                   !.ctl.receiver.joystick2_x = rx.joystick2_x,
                   !.ctl.receiver.speed_multiplier = rx.speed_multiplier,
                   !.ctl.receiver.gait_index = rx.gait_index,
                   !.ctl.receiver.calibration_mode = rx.calibration_mode,
                   !.ctl.receiver.sleep_mode = rx.sleep_mode,
                   !.ret = "True"]
    ELSE IF rx.kind = "timeout"
    THEN [m EXCEPT !.ctl.receiver.connected = FALSE, !.ret = "False"]
    ELSE [m EXCEPT !.ret = "True"]

\* CRSFReceiver.connect; opens says whether the serial port could be opened
CRSFReceiver_connect(m, opens) ==
    IF opens
    THEN [m EXCEPT !.ctl.receiver.serial = TRUE, !.ctl.receiver.connected = TRUE,
                   !.ret = "True"]
    ELSE [m EXCEPT !.ctl.receiver.connected = FALSE, !.ret = "False"]

CRSFReceiver_get_control_data(m) ==
    LET r == m.ctl.receiver
    IN  [connected |-> r.connected,
         joy1_x    |-> r.joystick1_x,
         joy1_y    |-> r.speed_multiplier,
         joy2_x    |-> r.joystick2_x,
         joy2_y    |-> r.joystick1_y,
         gait      |-> r.gait_index,
         button1   |-> r.calibration_mode,
         button2   |-> r.sleep_mode]

\* CRSFReceiver.cleanup, that is disconnect
CRSFReceiver_cleanup(m) ==
    [m EXCEPT !.ctl.receiver.serial = FALSE, !.ctl.receiver.connected = FALSE]

\* HexapodServoController.cleanup
servo_cleanup(m) == IF m.servo.servos_attached THEN detach_servos(m) ELSE m

\* HexapodController.__init__ from the constructed objects: the stored
\* offsets are loaded into the solver
HexapodController_init(m) ==
    Then(storage_load_offsets(m), LAMBDA r : set_raw_offsets(r.m, r.offsets))

\* HexapodController.setup
HexapodController_setup(m) ==
    setup_from(m, [i \in Legs |-> Vector3(DISTANCE_FROM_CENTER, 0, DISTANCE_FROM_GROUND_BASE)],
               FALSE)

\* the buttons of update_receiver: calibration mode, then sleep mode
update_receiver_buttons(m, data) ==
    Then(IF data.button1 /\ m.ctl.current_state # "Calibrate"
         THEN Then([m EXCEPT !.ctl.current_state = "Calibrate"], LAMBDA c :
                  IF c.ctl.state_objects THEN CalibrationState_reset(c) ELSE c)
         ELSE m, LAMBDA m1 :
        IF data.button2 /\ m1.ctl.current_state # "Sleep"
        THEN Then([m1 EXCEPT !.ctl.current_state = "Sleep"], LAMBDA s :
                 IF s.ctl.state_objects THEN SleepState_reset(s) ELSE s)
        ELSE m1)

\* HexapodController.update_receiver (self.receiver is never None: the
\* constructor of CRSFReceiver only assigns)
update_receiver(m, rx) ==
    Then(CRSFReceiver_update(m, rx), LAMBDA m1 :
        IF m1.ret = "True"
        THEN Then(CRSFReceiver_get_control_data(m1), LAMBDA data :
             Then([m1 EXCEPT !.ctl.connected = data.connected], LAMBDA m2 :
                 IF ~data.connected THEN [m2 EXCEPT !.ret = "None"]
                 ELSE
                 Then([m2 EXCEPT !.ctl.joy1_target = Vector2(data.joy1_x, data.joy1_y),
                                 !.ctl.joy2_target = Vector2(data.joy2_x, data.joy2_y),
                                 !.ctl.current_gait = GaitOfIndex[data.gait + 1]], LAMBDA m3 :
                 Then(IF m3.ctl.state_objects
                      THEN WalkingState_set_gait(m3, m3.ctl.current_gait)
                      ELSE m3, LAMBDA m4 :
                     [update_receiver_buttons(m4, data) EXCEPT !.ret = "None"]))))
        ELSE [m1 EXCEPT !.ctl.connected = FALSE,
                        !.ctl.joy1_target = Zero2,
                        !.ctl.joy2_target = Zero2,
                        !.ret = "None"])

\* HexapodController.update_control_smoothing; the height lerp with 0.05
update_control_smoothing(m) ==
    [m EXCEPT !.ctl.joy1_current = lerp2(m.ctl.joy1_current, m.ctl.joy1_target, Float_0_1),
              !.ctl.joy2_current = lerp2(m.ctl.joy2_current, m.ctl.joy2_target, Float_0_1),
              !.ctl.distance_from_ground =
                  lerp(m.ctl.distance_from_ground, m.ctl.target_distance_from_ground, 5)]

\* HexapodController._state_initialize
state_initialize(m) == [m EXCEPT !.ctl.current_state = "Stand"]

\* HexapodController._state_stand.  StandingState has no set_target_height,
\* and standing_state.update() is called without the three arguments that
\* update requires, so the call raises before the body of update runs and
\* the lines after it (the transition to CAR) are never reached.
state_stand(m) ==
    IF ~m.ctl.state_objects THEN m
    ELSE IF m.ctl.connected
    THEN [m EXCEPT !.ctl.target_distance_from_ground =
                       DISTANCE_FROM_GROUND_BASE
                         + SFixedOf(sfmul(m.ctl.joy2_current.y, SFloat(FALSE, Float(30))), Unit),
                   !.exc = "AttributeError"]
    ELSE [m EXCEPT !.exc = "TypeError"]

\* HexapodController._state_car.  walking_state.update(translation, rotation)
\* gives two of the four arguments that update requires.
state_car(m) ==
    IF ~m.ctl.state_objects THEN m
    ELSE IF flt(m.ctl.joy1_current.x.mag, Float_0_05) /\ flt(m.ctl.joy1_current.y.mag, Float_0_05)
    THEN StandingState_reset([m EXCEPT !.ctl.current_state = "Stand"])
    ELSE [m EXCEPT !.exc = "TypeError"]

\* HexapodController._state_calibrate (rc_offsets stays None)
state_calibrate(m) ==
    IF ~m.ctl.state_objects THEN m ELSE CalibrationState_update(m, NoOffsets)

\* HexapodController._state_sleep
state_sleep(m) ==
    IF ~m.ctl.state_objects THEN m
    ELSE Then(SleepState_update(m), LAMBDA m1 :
             IF m1.exc = "None" /\ m1.ret = "True" /\ m1.ctl.connected
                /\ (flt(Float_0_2, m1.ctl.joy1_current.x.mag)
                    \/ flt(Float_0_2, m1.ctl.joy1_current.y.mag))
             THEN StandingState_reset(
                      [SleepState_wake_up(m1) EXCEPT !.ctl.current_state = "Stand"])
             ELSE m1)

\* HexapodController.update_state.  State.SLAM_ATTACK is assigned nowhere, so
\* current_state is one of the five states below.
update_state(m) ==
    CASE m.ctl.current_state = "Initialize" -> state_initialize(m)
      [] m.ctl.current_state = "Stand"      -> state_stand(m)
      [] m.ctl.current_state = "Car"        -> state_car(m)
      [] m.ctl.current_state = "Calibrate"  -> state_calibrate(m)
      [] m.ctl.current_state = "Sleep"      -> state_sleep(m)
      [] OTHER                              -> m

\* HexapodController.shutdown: save, servo cleanup, receiver cleanup,
\* sys.exit(0).  exc keeps the exception that ended the loop.
shutdown(m) ==
    Then(servo_cleanup(storage_save([m EXCEPT !.exc = "None"])), LAMBDA m1 :
        [CRSFReceiver_cleanup(m1) EXCEPT !.ctl.exited = TRUE, !.exc = m.exc, !.ret = "None"])

\* one pass of the while loop of HexapodController.loop, and its
\* "except Exception" handler when the pass raises
loop_pass(m, rx) ==
    Then(update_receiver(m, rx), LAMBDA m1 :
    Then(update_control_smoothing(m1), LAMBDA m2 :
    Then(update_state(m2), LAMBDA m3 :
        IF m3.exc # "None" THEN shutdown(m3)
        ELSE [m3 EXCEPT !.ctl.loop_count = m3.ctl.loop_count + 1, !.ret = "None"])))

-----------------------------------------------------------------------------
(* The controller as main() runs it: __init__, setup, loop                 *)

\* the stored offsets of the first two servos lie in -MaxStoredOffset .. MaxStoredOffset
MaxStoredOffset == 2

\* passes of the loop made in one behaviour
MaxLoops == 2

\* offsets lists the configuration file can hold at start
StoredOffsets ==
    { [i \in 1 .. 18 |-> IF i = 1 THEN a ELSE IF i = 2 THEN b ELSE 0] :
        a, b \in -MaxStoredOffset .. MaxStoredOffset }

\* what the serial port can hold at a tick: nothing, nothing for more than
\* a second, a frame with the sticks centred, a frame with the left stick
\* pushed and the sleep switch high
RxInputs ==
    { [kind |-> "none"],
      [kind |-> "timeout"],
      [kind |-> "frame",
       joystick1_x |-> SFloat(FALSE, Float(0)), joystick1_y |-> SFloat(FALSE, Float(0)),
       joystick2_x |-> SFloat(FALSE, Float(0)), speed_multiplier |-> SFloat(FALSE, Float(1)),
       gait_index |-> 0, calibration_mode |-> FALSE, sleep_mode |-> FALSE],
      [kind |-> "frame",
       joystick1_x |-> SFloat(TRUE, Float_0_3), joystick1_y |-> SFloat(FALSE, Float_0_4),
       joystick2_x |-> SFloat(FALSE, Float(0)), speed_multiplier |-> SFloat(FALSE, Float(1)),
       gait_index |-> 3, calibration_mode |-> FALSE, sleep_mode |-> TRUE] }

InitMain ==
    \E stored \in StoredOffsets :
        Start(HexapodController_init([Fresh EXCEPT !.store = stored]))

MainSetup ==
    /\ ~controller.state_objects
    /\ ~controller.exited
    /\ Commit(Call("HexapodController.setup"), HexapodController_setup(Machine))

LoopPass ==
    /\ controller.state_objects
    /\ ~controller.exited
    /\ controller.loop_count < MaxLoops
    /\ \E rx \in RxInputs :
          Commit([Call("HexapodController.loop") EXCEPT !.arg = <<rx>>],
                 loop_pass(Machine, rx))

NextMain == MainSetup \/ LoopPass

SpecMain == InitMain /\ [][NextMain]_vars

\* C5: starting from setup(), whatever the receiver holds at each tick, no
\* pass of the control loop raises an exception and the loop never reaches
\* shutdown() and the exit of the process on its own.
C5_NoTickRaises ==
    call.op = "HexapodController.loop" => call.exc = "None" /\ ~controller.exited

-----------------------------------------------------------------------------
(* The offsets store on its own: load_offsets and save_offsets             *)

\* the longest offsets list held by the file at start
MaxStoredLen == 20

\* offsets lists of every length up to MaxStoredLen: the entries all
\* different, or all -3
StoredFiles ==
    { [i \in 1 .. n |-> i] : n \in 0 .. MaxStoredLen }
      \cup { [i \in 1 .. n |-> -3] : n \in 0 .. MaxStoredLen }

InitStorage == \E stored \in StoredFiles : Start([Fresh EXCEPT !.store = stored])

\* load_offsets; the call record keeps the stored list as it was and the
\* list returned
StorageLoad ==
    /\ \E r \in {storage_load_offsets(Machine)} :
          Commit([Call("HexapodStorage.load_offsets") EXCEPT !.arg = <<storage, r.offsets>>],
                 r.m)

StorageSaveOffsets ==
    /\ \E offsets \in OffsetLists :
          Commit([Call("HexapodStorage.save_offsets") EXCEPT !.arg = offsets],
                 storage_save_offsets(Machine, offsets))

NextStorage == StorageLoad \/ StorageSaveOffsets

SpecStorage == InitStorage /\ [][NextStorage]_vars

\* C11: load_offsets returns exactly 18 entries for a stored list of any
\* length n: the first min(n, 18) are the stored ones, the rest are 0.
C11_LoadGivesEighteen ==
    call.op = "HexapodStorage.load_offsets"
      => /\ Len(call.arg[2]) = 18
         /\ \A i \in 1 .. 18 :
               call.arg[2][i] = IF i <= Len(call.arg[1]) THEN call.arg[1][i] ELSE 0

\* a load of a stored list shorter than 18 whose entries are not 0
C11_Witness ==
    /\ call.op = "HexapodStorage.load_offsets"
    /\ Len(call.arg[1]) \in 1 .. 17
    /\ call.arg[1][1] # 0

-----------------------------------------------------------------------------
(* The controller with a receiver whose port is opened by connect()        *)

InitLink == InitMain

ReceiverConnect ==
    /\ ~controller.exited
    /\ ~controller.receiver.serial
    /\ \E opens \in BOOLEAN :
          Commit([Call("CRSFReceiver.connect") EXCEPT !.arg = <<opens>>],
                 CRSFReceiver_connect(Machine, opens))

NextLink == MainSetup \/ ReceiverConnect \/ LoopPass

SpecLink == InitLink /\ [][NextLink]_vars

-----------------------------------------------------------------------------
(* The attack controller on its own                                        *)

\* moves made before the attack in one behaviour
MaxAttackMoves == 2

\* attack_speed values: no frame at all, a phase 2 of one, two and three
\* frames, the default, the documented maximum
AttackSpeeds == {0, 1, 2, 3, 25, 100}

AttackTargets == {StandPose, SleepPose, BeyondReach}

InitAttack == \E P \in StandStarts, sh \in BOOLEAN : Start(Setup(P, sh))

\* a state controller moves a leg before the attack is invoked
AttackMove ==
    /\ call.n < MaxAttackMoves
    /\ \E leg \in Legs, pos \in AttackTargets :
          Commit([Call("move_to_pos") EXCEPT !.leg = leg, !.pos = pos, !.arg = <<leg, 0>>,
                                             !.n = call.n + 1],
                 move_to_pos(Machine, leg, pos))

SlamAttack ==
    /\ \E attack_speed \in AttackSpeeds :
          \E m \in {AttacksState_slam_attack(Machine, attack_speed)} :
             Commit([Call("AttacksState.slam_attack") EXCEPT !.arg = <<attack_speed>>], m)

NextAttack == AttackMove \/ SlamAttack

SpecAttack == InitAttack /\ [][NextAttack]_vars

\* C22: slam_attack with the default attack_speed runs both phases within
\* the one call and returns True without raising
C22_SlamAttackCompletes ==
    (call.op = "AttacksState.slam_attack" /\ call.arg = <<25>>)
      => (call.exc = "None" /\ call.ret = "True")

\* C23: an invocation whose phase 2 has at least two frames has fired the
\* slam trigger by the time it ends, so that slam_started is set
C23_SlamFires ==
    (call.op = "AttacksState.slam_attack" /\ call.arg[1] >= 2)
      => attacks_state.slam_started

-----------------------------------------------------------------------------
(* The curve evaluator on its own                                          *)

\* the longest list of control points
MaxControlPoints == 5

\* control points, and the lists of 2 to MaxControlPoints of them
BezierPoints == {Vector3(17300, 0, -6000), Vector3(-7000, 5000, 8000), Vector3(0, -12000, 0)}

BezierLists == UNION {[1 .. n -> BezierPoints] : n \in 2 .. MaxControlPoints}

\* the curve parameter t as tnum / 4
BezierParams == {0, 1, 2, 4}

InitBezier == Start(Fresh)

\* the evaluator keeps no state: a behaviour is one evaluation
BezierEval3 ==
    /\ call.op = "init"
    /\ \E pts \in BezierLists, tnum \in BezierParams :
          Commit([Call("get_point_on_bezier_curve") EXCEPT
                      !.arg = <<pts, tnum, 4>>,
                      !.pos = get_point_on_bezier_curve(pts, Len(pts), tnum, 4)],
                 Machine)

BezierEval2 ==
    /\ call.op = "init"
    /\ \E pts3 \in BezierLists, tnum \in BezierParams :
          \E pts \in {[i \in 1 .. Len(pts3) |-> [x |-> pts3[i].x, y |-> pts3[i].y]]} :
             Commit([Call("get_point_on_bezier_curve") EXCEPT
                         !.arg = <<pts, tnum, 4>>,
                         !.pos = get_point_on_bezier_curve_2d(pts, Len(pts), tnum, 4)],
                    Machine)

NextBezier == BezierEval3 \/ BezierEval2

SpecBezier == InitBezier /\ [][NextBezier]_vars

\* C24: for 2 to 5 control points, in two or three dimensions, the curve
\* at t = 0 is the first control point and at t = 1 the last
C24_EndpointLaw ==
    call.op = "get_point_on_bezier_curve"
      => /\ call.arg[2] = 0 => call.pos = call.arg[1][1]
         /\ call.arg[2] = call.arg[3] => call.pos = call.arg[1][Len(call.arg[1])]

\* the curve through five different-ended control points has been
\* evaluated at t = 1
C24_Witness ==
    /\ call.op = "get_point_on_bezier_curve"
    /\ Len(call.arg[1]) = 5
    /\ call.arg[2] = call.arg[3]
    /\ call.arg[1][1] # call.arg[1][5]
    /\ call.arg[1][4] # call.arg[1][5]
    /\ call.pos = call.arg[1][5]

-----------------------------------------------------------------------------
(* The solver's angles put back through the leg's geometry                 *)

\* cos and sin of a whole number of degrees, times 10000
Cos(d) == LET r == d % 360 IN CosTable[(IF r > 180 THEN 360 - r ELSE r) + 1]

Sin(d) == Cos(d - 90)

\* a commanded servo angle (hundredths of a degree) to the nearest degree
Degrees(a) == (a + 50) \div 100

\* the foot position that the joint angles t1, t2, t3 (degrees; coxa from
\* the x axis, femur above the horizontal, tibia bent down from the femur)
\* give with the link lengths a1, a2, a3
forward_position(t1, t2, t3) ==
    LET l1 == (FEMUR_LENGTH * Cos(t2) + TIBIA_LENGTH * Cos(t2 - t3)) \div 10000
        z  == (FEMUR_LENGTH * Sin(t2) + TIBIA_LENGTH * Sin(t2 - t3)) \div 10000
        l  == COXA_LENGTH + l1
    IN  Vector3((l * Cos(t1)) \div 10000, (l * Sin(t1)) \div 10000, z)

\* the distance allowed between a target and its reconstruction: 20 mm,
\* above what three angles of whole degrees can add up to at full reach
RoundTripTolerance == 2000

\* the position reconstructed from the servo command of the last call, the
\* base offsets of config.py (the offsets of a robot whose 18 stored
\* offsets are zero) taken off again
Reconstructed ==
    LET a == call.log[1].angles
        o == kinematics.offsets[call.leg]
    IN  forward_position(Degrees(a[1]) - o.x, Degrees(a[2]) - o.y, Degrees(a[3]) - o.z)

\* C25: for every target within a1+a2+a3 of the leg origin, the stored
\* offsets being zero, the position reconstructed from the three angles of
\* the servo command and the link lengths lies within the tolerance of the
\* target.
C25_RoundTrip ==
    (/\ call.op = "move_to_pos"
     /\ SqDist(call.pos) <= LEG_LENGTH * LEG_LENGTH
     /\ kinematics.raw_offsets = Zero18)
    => /\ Len(call.log) = 1
       /\ distance_leq(Reconstructed, call.pos, RoundTripTolerance)

-----------------------------------------------------------------------------
(* receiver/crsf_receiver.py: from the raw channels to the control values  *)

CRSF_MID == 992
CRSF_MAX == 1811

\* channel indices, 0-based as in the class
CH_YAW == 12
CH_SPEED == 13
CH_PITCH == 14
CH_ROLL == 15
CH_SLEEP == 7
CH_GAIT == 9
CH_CALIBRATION == 11

\* (min_val, max_val, gait_idx) in the order of the class
GAIT_THRESHOLDS ==
    << <<343, 543, 0>>, <<771, 971, 1>>, <<1200, 1400, 2>>,
       <<1414, 1614, 3>>, <<986, 1186, 4>>, <<557, 757, 5>> >>

\* CRSFReceiver._normalize_channel
normalize_channel(value) ==
    Then(fdiv(Float(Abs(value - CRSF_MID)), CRSF_MAX - CRSF_MID), LAMBDA q :
        SFloat(value < CRSF_MID, fmin(Float(1), q)))

RECURSIVE gait_scan(_, _)
gait_scan(value, k) ==
    IF k > Len(GAIT_THRESHOLDS) THEN 0
    ELSE IF GAIT_THRESHOLDS[k][1] <= value /\ value <= GAIT_THRESHOLDS[k][2]
         THEN GAIT_THRESHOLDS[k][3]
         ELSE gait_scan(value, k + 1)

\* CRSFReceiver._get_gait_from_value
get_gait_from_value(value) == gait_scan(value, 1)

\* CRSFReceiver._update_control_values; channels is the list of the frame,
\* channels[i + 1] the value of channel index i
update_control_values(m, channels) ==
    [m EXCEPT !.ctl.receiver.joystick1_x = normalize_channel(channels[CH_YAW + 1]),
              !.ctl.receiver.joystick1_y = normalize_channel(channels[CH_PITCH + 1]),
              !.ctl.receiver.joystick2_x = normalize_channel(channels[CH_ROLL + 1]),
              !.ctl.receiver.speed_multiplier =
                  sfadd(normalize_channel(channels[CH_SPEED + 1]), SFloat(FALSE, Float(1))),
              !.ctl.receiver.gait_index = get_gait_from_value(channels[CH_GAIT + 1]),
              !.ctl.receiver.calibration_mode = channels[CH_CALIBRATION + 1] > CRSF_MID,
              !.ctl.receiver.sleep_mode = channels[CH_SLEEP + 1] > CRSF_MID]

\* CRSFReceiver._process_channels for a valid channel frame
process_channels(m, channels) ==
    update_control_values([m EXCEPT !.ctl.receiver.connected = TRUE], channels)

\* values a stick or switch channel is given: below the range, its ends,
\* the centre, the top of the 11 bits
StickValues == {0, 172, 992, 1811, 2047}
SwitchValues == {172, 1811}
\* the six detents of the gait selector, a value between two of them and
\* the ends of the 11 bits
GaitValues == {0, 443, 550, 657, 871, 1086, 1300, 1514, 2047}

ChannelFrame(yaw, speed, pitch, roll, gait, cal, slp) ==
    [i \in 1 .. 16 |->
        CASE i = CH_YAW + 1 -> yaw
          [] i = CH_SPEED + 1 -> speed
          [] i = CH_PITCH + 1 -> pitch
          [] i = CH_ROLL + 1 -> roll
          [] i = CH_GAIT + 1 -> gait
          [] i = CH_CALIBRATION + 1 -> cal
          [] i = CH_SLEEP + 1 -> slp
          [] OTHER -> CRSF_MID]

InitReceiver == Start(Fresh)

\* connect(), with or without a port to open
ReceiverOpen ==
    /\ call.op = "init"
    /\ \E opens \in BOOLEAN :
          Commit([Call("CRSFReceiver.connect") EXCEPT !.arg = <<opens>>],
                 CRSFReceiver_connect(Machine, opens))

\* one valid channel frame parsed from the open port
ReceiverFrame ==
    /\ call.op = "CRSFReceiver.connect"
    /\ controller.receiver.serial
    /\ \E yaw, speed, pitch, roll \in StickValues, gait \in GaitValues,
          cal, slp \in SwitchValues :
          Commit([Call("CRSFReceiver._process_channels")
                      EXCEPT !.arg = ChannelFrame(yaw, speed, pitch, roll, gait, cal, slp)],
                 process_channels(Machine, ChannelFrame(yaw, speed, pitch, roll, gait, cal, slp)))

NextReceiver == ReceiverOpen \/ ReceiverFrame

SpecReceiver == InitReceiver /\ [][NextReceiver]_vars

\* a float of either sign lies in [-1, 1]
UnitRange(s) == ~flt(Float(1), s.mag)

\* C26: whatever the raw channel values, the snapshot of get_control_data has
\* joy1_x, joy1_y, joy2_x and joy2_y in [-1, 1], each of them 0 when the four
\* stick channels are at the centre value, and gait in 0 .. 5.
C26_SnapshotInRange ==
    LET data == CRSFReceiver_get_control_data(Machine)
        centred == /\ call.op = "CRSFReceiver._process_channels"
                   /\ \A ch \in {CH_YAW, CH_SPEED, CH_PITCH, CH_ROLL} :
                         call.arg[ch + 1] = CRSF_MID
    IN  /\ UnitRange(data.joy1_x) /\ UnitRange(data.joy1_y)
        /\ UnitRange(data.joy2_x) /\ UnitRange(data.joy2_y)
        /\ data.gait \in 0 .. 5
        /\ centred => /\ data.joy1_x.mag = Float(0) /\ data.joy1_y.mag = Float(0)
                      /\ data.joy2_x.mag = Float(0) /\ data.joy2_y.mag = Float(0)

-----------------------------------------------------------------------------
(* The store with its calibration and settings sections                    *)

MaxStorageCalls == 3

\* the sections a configuration file can hold beside the offsets: the
\* defaults, or one of the two sections missing
StoredSections ==
    { StorageDataInit,
      [settings |-> StorageDataInit.settings],
      [calibration |-> StorageDataInit.calibration] }

\* offsets lists handed to save_offsets: 18 entries all different, 18 equal
\* entries, and a list of 16
SavedLists ==
    { [i \in 1 .. 18 |-> i - 9], [i \in 1 .. 18 |-> 5], [i \in 1 .. 16 |-> 5] }

CalibrationUpdates == { [lift_height |-> 9000], [tilt |-> 3] }
SettingsUpdates == { [default_gait |-> 2], [dynamic_stride_length |-> FALSE, volume |-> 7] }
SettingKeys == {"default_gait", "volume"}

InitStorageData ==
    \E stored \in {Zero18, [i \in 1 .. 16 |-> 5]}, sections \in StoredSections :
        Start([Fresh EXCEPT !.store = stored, !.data = sections])

\* in this specification call.arg[1] is the list of the last save_offsets
\* call that returned True (call.arg is empty before it) and, after
\* load_offsets, call.arg[2] the list returned
DataSaveOffsets ==
    /\ call.n < MaxStorageCalls
    /\ \E offsets \in SavedLists :
          \E m \in {storage_save_offsets(Machine, offsets)} :
              Commit([Call("HexapodStorage.save_offsets")
                          EXCEPT !.n = call.n + 1,
                                 !.arg = IF m.ret = "True" THEN <<offsets>>
                                         ELSE SubSeq(call.arg, 1, Min(1, Len(call.arg)))],
                     m)

DataSaveCalibration ==
    /\ call.n < MaxStorageCalls
    /\ \E calibration_data \in CalibrationUpdates :
          Commit([Call("HexapodStorage.save_calibration")
                      EXCEPT !.n = call.n + 1,
                             !.arg = SubSeq(call.arg, 1, Min(1, Len(call.arg)))],
                 storage_save_calibration(Machine, calibration_data))

DataSaveSettings ==
    /\ call.n < MaxStorageCalls
    /\ \E settings_data \in SettingsUpdates :
          Commit([Call("HexapodStorage.save_settings")
                      EXCEPT !.n = call.n + 1,
                             !.arg = SubSeq(call.arg, 1, Min(1, Len(call.arg)))],
                 storage_save_settings(Machine, settings_data))

DataSetSetting ==
    /\ call.n < MaxStorageCalls
    /\ \E key \in SettingKeys, value \in {1, 2} :
          Commit([Call("HexapodStorage.set_setting")
                      EXCEPT !.n = call.n + 1,
                             !.arg = SubSeq(call.arg, 1, Min(1, Len(call.arg)))],
                 storage_set_setting(Machine, key, value))

\* load_offsets is not counted: it can follow every sequence of saves
DataLoadOffsets ==
    /\ call.op # "HexapodStorage.load_offsets"
    /\ \E r \in {storage_load_offsets(Machine)} :
          Commit([Call("HexapodStorage.load_offsets")
                      EXCEPT !.arg = IF call.arg = << >> THEN << >>
                                     ELSE <<call.arg[1], r.offsets>>],
                 r.m)

NextStorageData ==
    \/ DataSaveOffsets \/ DataSaveCalibration \/ DataSaveSettings
    \/ DataSetSetting \/ DataLoadOffsets

SpecStorageData == InitStorageData /\ [][NextStorageData]_vars

\* C27: load_offsets returns a list equal to the list o of 18 values given
\* to the last save_offsets, whatever save_calibration, save_settings and
\* set_setting calls were made in between.
C27_OffsetsRoundTrip ==
    (call.op = "HexapodStorage.load_offsets" /\ call.arg # << >>)
    => call.arg[2] = call.arg[1]

\* a load that follows save_offsets and at least one call on the settings
C27_Witness ==
    /\ call.op = "HexapodStorage.load_offsets"
    /\ call.n = MaxStorageCalls
    /\ call.arg # << >>
    /\ call.arg[2] = [i \in 1 .. 18 |-> i - 9]
    /\ "settings" \in DOMAIN storage_data
    /\ "volume" \in DOMAIN storage_data.settings

-----------------------------------------------------------------------------
(* The gait engine with reset: set_gait, update and reset after setup      *)

InitPhase == InitGait

WalkReset ==
    /\ call.n < MaxWalkCalls
    /\ Commit([Call("WalkingState.reset") EXCEPT !.n = call.n + 1],
              WalkingState_reset(Machine))

NextPhase == SetGait \/ WalkUpdate \/ WalkReset

SpecPhase == InitPhase /\ [][NextPhase]_vars

\* C28: after any sequence of set_gait, update and reset calls every leg has
\* 0 <= cycle_progress < POINTS (the phase is kept as a magnitude, never
\* below 0), so that the t of get_gait_point stays below 1.
C28_PhaseInCycle ==
    \A i \in Legs : flt(walking_state.cycle_progress[i], Float(POINTS))

\* an update after which a leg that started the cycle behind leg 0 has
\* passed the end of the cycle and is back below leg 0
C28_Witness ==
    /\ call.op = "WalkingState.update"
    /\ \E i \in 1 .. 5 :
          flt(walking_state.cycle_progress[i], walking_state.cycle_progress[0])

-----------------------------------------------------------------------------
(* The positions the state controllers read, under the wiring of setup()   *)

\* C29: once setup() has built the state controllers, the list of current
\* positions they read agrees with kinematics.current_points after every
\* tick of the control loop, so that a position given to move_to_pos is the
\* position every controller reads next for that leg.
C29_ViewAgrees ==
    controller.state_objects => current_points = kinematics.current_points

-----------------------------------------------------------------------------
(* The states the control loop gets into                                   *)

MaxTourLoops == 5

\* what the port can hold at a tick of the tour: the frames of RxInputs, a
\* frame with the calibration switch high, a frame with the right stick
\* pushed forward and no switch
TourInputs ==
    RxInputs \cup
    { [kind |-> "frame",
       joystick1_x |-> SFloat(FALSE, Float(0)), joystick1_y |-> SFloat(FALSE, Float(0)),
       joystick2_x |-> SFloat(FALSE, Float(0)), speed_multiplier |-> SFloat(FALSE, Float(1)),
       gait_index |-> 0, calibration_mode |-> TRUE, sleep_mode |-> FALSE],
      [kind |-> "frame",
       joystick1_x |-> SFloat(FALSE, Float(0)), joystick1_y |-> SFloat(FALSE, Float(1)),
       joystick2_x |-> SFloat(FALSE, Float(0)), speed_multiplier |-> SFloat(FALSE, Float(1)),
       gait_index |-> 1, calibration_mode |-> FALSE, sleep_mode |-> FALSE] }

InitTour == Start(HexapodController_init(Fresh))

\* HexapodController.setup, as main() calls it
TourSetup ==
    /\ ~controller.state_objects
    /\ ~controller.exited
    /\ \E m \in {HexapodController_setup(Machine)} :
          Commit(Call("HexapodController.setup"), m)

TourPass ==
    /\ controller.state_objects
    /\ ~controller.exited
    /\ controller.loop_count < MaxTourLoops
    /\ \E rx \in TourInputs :
          \E m \in {loop_pass(Machine, rx)} :
              Commit([Call("HexapodController.loop") EXCEPT !.arg = <<rx>>], m)

NextTour == TourSetup \/ ReceiverConnect \/ TourPass

\* main() calls setup() as soon as the controller is constructed; what the
\* operator and the link do afterwards is left open
SpecTour == InitTour /\ [][NextTour]_vars /\ WF_vars(TourSetup)

\* No behaviour at all has the controller in Car or SlamAttack: the Stand
\* handler raises before its transition to Car, and State.SLAM_ATTACK is
\* assigned nowhere.
NeverWalkOrAttack == controller.current_state \notin {"Car", "SlamAttack"}

\* C30: starting from Initialize the controller gets into each of Stand,
\* Car, Calibrate, Sleep and SlamAttack.  For Car and SlamAttack, of the
\* behaviours in which loop() runs until the process exits: at some tick
\* current_state is Car, and at some tick it is SlamAttack.
C30_WalkAndAttackEntered ==
    <>controller.exited
    => /\ <>(controller.current_state = "Car")
       /\ <>(controller.current_state = "SlamAttack")

-----------------------------------------------------------------------------
(* The stand transition three legs at a time, tick by tick                 *)

MaxStandResets == 1
MaxStandTicks == 104

\* the values of stand_progress at which a reset() comes in: at the start
\* of a pass or after completion, early in a pass, late in a pass
ResetAtProgress == {0, 400, 1000}

\* the ticks of one pass: stand_progress goes up by 20 until it exceeds POINTS
TicksPerPass == POINTS \div 20 + 1

InitStandThree == InitStand

\* the update() ticks since the last reset() (since construction, before
\* the first), kept in the record of the call
TicksSinceReset == IF Len(call.arg) = 0 THEN 0 ELSE call.arg[1]

\* a tick of _state_stand coming from Car: update() with move_all_at_once
\* and high_lift at their defaults
StandThreeTick ==
    /\ TicksSinceReset < MaxStandTicks
    /\ \E m \in {StandingState_update(Machine, DISTANCE_FROM_GROUND_BASE, 0, "Car", FALSE, FALSE)} :
          Commit([Call("StandingState.update") EXCEPT !.arg = <<TicksSinceReset + 1>>], m)

StandThreeReset ==
    /\ call.n < MaxStandResets
    /\ standing_state.stand_progress \in ResetAtProgress
    /\ \E m \in {StandingState_reset(Machine)} :
          Commit([Call("StandingState.reset") EXCEPT !.n = call.n + 1, !.arg = <<0>>], m)

NextStandThree == StandThreeTick \/ StandThreeReset

SpecStandThree == InitStandThree /\ [][NextStandThree]_vars

\* C31: three legs at a time, update() returns False on each of the first
\* 2 * TicksPerPass - 1 ticks after a reset() and True on every later tick
\* until the next reset(): the two passes end after finitely many ticks,
\* with stand_loops = 2 from then on.
C31_TwoPassesThenDone ==
    call.op = "StandingState.update"
    => /\ call.exc = "None"
       /\ call.ret = (IF call.arg[1] >= 2 * TicksPerPass THEN "True" ELSE "False")
       /\ (call.ret = "True") = (standing_state.stand_loops = 2)

\* a transition that was reset on its way has completed: the second tick
\* that returns True after a reset()
C31_Witness ==
    /\ call.op = "StandingState.update"
    /\ call.n = 1
    /\ call.ret = "True"
    /\ call.arg[1] = 2 * TicksPerPass + 1

-----------------------------------------------------------------------------
(* The choice of the three highest legs                                    *)

\* where a leg can be when the choice is made: on the standing end point,
\* 4.24 mm from it and above it, exactly 5 mm from it at its height, 20 mm
\* above it, 20 mm above it and 10 mm out (as high as the one before),
\* 10 mm below it
SelectPositions ==
    { StandPose,
      Vector3(StandPose.x + 300, StandPose.y, StandPose.z + 300),
      Vector3(StandPose.x, StandPose.y + 500, StandPose.z),
      Vector3(StandPose.x, StandPose.y, StandPose.z + 2000),
      Vector3(StandPose.x + 1000, StandPose.y, StandPose.z + 2000),
      Vector3(StandPose.x, StandPose.y, StandPose.z - 1000) }

\* the legs that take any position but the last, which only leg 5 takes
SelectLists ==
    { P \in [Legs -> SelectPositions] :
        \A i \in 0 .. 4 : P[i].z >= StandPose.z }

\* StandingState(kinematics, P) with the end point update() computes for
\* the default height before it calls set_3_highest_legs
InitSelect ==
    \E P \in SelectLists :
        Start([Fresh EXCEPT !.pts = P, !.stand.standing_end_point = StandPose])

\* the choice keeps no state but current_legs: a behaviour is one call
SelectHighest ==
    /\ call.op = "init"
    /\ \E m \in {set_3_highest_legs(Machine)} :
          Commit(Call("StandingState.set_3_highest_legs"), m)

NextSelect == SelectHighest

SpecSelect == InitSelect /\ [][NextSelect]_vars

\* the legs not closer than 5 mm to the end point, which the scan does not skip
Eligible ==
    {i \in Legs : ~distance_lt(current_points[i], standing_state.standing_end_point, 5 * Unit)}

\* the legs farther than 5 mm from the end point
FartherThan5 ==
    {i \in Legs : ~distance_leq(current_points[i], standing_state.standing_end_point, 5 * Unit)}

\* the legs chosen in the slots before slot j
ChosenBefore(j) == {standing_state.current_legs[k] : k \in 1 .. j - 1}

\* current_legs is the choice, slot by slot, of the highest leg of the set
\* among those not chosen before
HighestOf(candidates) ==
    LET legs == standing_state.current_legs
    IN  /\ \A j, k \in 1 .. 3 : (j # k /\ legs[j] # -1) => legs[j] # legs[k]
        /\ \A j \in 1 .. 3 :
              IF legs[j] = -1
              THEN candidates \ ChosenBefore(j) = {}
              ELSE /\ legs[j] \in candidates \ ChosenBefore(j)
                   /\ \A i \in candidates \ ChosenBefore(j) :
                         current_points[i].z <= current_points[legs[j]].z

\* C32 as stated: after set_3_highest_legs the entries of current_legs
\* other than -1 are pairwise distinct legs, each farther than 5 mm from the
\* standing end point; slot j holds the leg with the greatest z among the
\* legs farther than 5 mm not chosen in the slots before it, and is -1 only
\* when no such leg remains.
C32_HighestFartherThan5 ==
    call.op = "StandingState.set_3_highest_legs" => HighestOf(FartherThan5)

\* C32, amended: the same with a leg eligible when it is at least 5 mm from
\* the standing end point (the scan skips a leg only when its distance is
\* below 5).
C32_HighestNotWithin5 ==
    call.op = "StandingState.set_3_highest_legs" => HighestOf(Eligible)

\* three legs chosen, the last of them exactly 5 mm from the end point,
\* while a leg above all of them, closer than 5 mm, is left out
C32_Witness ==
    /\ call.op = "StandingState.set_3_highest_legs"
    /\ \A j \in 1 .. 3 : standing_state.current_legs[j] # -1
    /\ standing_state.current_legs[3] \in Eligible \ FartherThan5
    /\ \E i \in Legs \ Eligible :
          current_points[i].z > current_points[standing_state.current_legs[3]].z

-----------------------------------------------------------------------------
(* The calibration controller tick after tick                              *)

\* leg positions a calibration can start from: the default stance, a
\* stance with the legs at six heights below and above the intermediate
\* height, a stance above the calibration pose and beyond it
CalLoopStarts ==
    { [i \in Legs |-> StandPose],
      [i \in Legs |-> Vector3(15000 + 700 * i, 1000 * i - 2000, 1500 * i - 6000)],
      [i \in Legs |-> Vector3(4000, -3000, 30500)] }

\* Repeated update ticks, each reading the positions the previous one commanded
InitCalLoop == \E P \in CalLoopStarts : Start(Setup(P, TRUE))

\* One tick of _state_calibrate, which hands update() no offsets; call.n
\* alternates between 0 and 1 so that two consecutive ticks are always
\* different steps.
CalLoopTick ==
    /\ \E m \in {CalibrationState_update(Machine, NoOffsets)} :
          Commit([Call("CalibrationState.update") EXCEPT !.n = 1 - call.n], m)

\* the first tick after the controller has got into Calibrate
CalLoopStart == call.op = "init" /\ CalLoopTick

NextCalLoop == CalLoopTick

\* the loop calls update as soon as the state is entered
SpecCalLoop == InitCalLoop /\ [][NextCalLoop]_vars /\ WF_vars(CalLoopStart)

\* the loop goes on calling update: there is always a later tick
CalLoopGoesOn == []<>(call.n = 0) /\ []<>(call.n = 1)

\* every leg, as commanded, is within 5 mm of the calibration pose
AllNearCalibrationPose ==
    \A i \in Legs :
        distance_leq(kinematics.current_points[i],
                     calibration_state.target_calibration, 5 * Unit)

-----------------------------------------------------------------------------
(* The phases a change of gait sets                                        *)

\* the Python float (POINTS / 6) * k
SixthOfCycle(k) == fmul(fdiv(Float(POINTS), 6), Float(k))

\* C34: a set_gait(g) with g different from the gait before it leaves every
\* leg in Reset; for TRI legs 0, 2, 4 are at phase 0 and legs 1, 3, 5 at
\* POINTS / 2; for WAVE the six phases are (POINTS / 6) * k for six
\* different k of 0 .. 5, pairwise different as numbers; for HOP all six
\* are 0.
C34_GaitChangeSetsPhases ==
    (/\ call.op = "WalkingState.set_gait"
     /\ walking_state.previous_gait # walking_state.current_gait)
    => LET c == walking_state.cycle_progress
           g == call.arg[1]
       IN  /\ walking_state.current_gait = g
           /\ \A i \in Legs : walking_state.leg_states[i] = "Reset"
           /\ g = "TRI" => \A i \in Legs :
                 c[i] = IF i % 2 = 0 THEN Float(0) ELSE Float(POINTS \div 2)
           /\ g = "WAVE" =>
                 /\ \E k \in [Legs -> 0 .. 5] :
                       /\ \A i, j \in Legs : i # j => k[i] # k[j]
                       /\ \A i \in Legs : c[i] = SixthOfCycle(k[i])
                 /\ \A i, j \in Legs : i # j => (flt(c[i], c[j]) \/ flt(c[j], c[i]))
           /\ g = "HOP" => \A i \in Legs : c[i] = Float(0)

\* the gait was changed to WAVE after a tick of the walk had taken the legs
\* out of Reset
C34_Witness ==
    /\ call.op = "WalkingState.set_gait"
    /\ call.n = 3
    /\ call.arg[1] = "WAVE"
    /\ walking_state.previous_gait = "HOP"
    /\ \A i \in Legs : walking_state.leg_states[i] = "Reset"

-----------------------------------------------------------------------------
(* The tripod phases across a reset of the walk                            *)

\* C35: after set_gait(TRI), whatever reset() and update calls follow
\* without another set_gait, legs 1, 3, 5 are half a cycle from legs
\* 0, 2, 4 (up to the rounding of the float sums, at most 2^-42 for every
\* call made).
C35_OffsetsSurviveReset ==
    walking_state.current_gait = "TRI"
    => BigCmp(PhaseDrift(walking_state.cycle_progress[1],
                         walking_state.cycle_progress[0],
                         Float(POINTS \div 2), Float(0)),
              BigScale(RoundingStep, call.n)) <= 0

-----------------------------------------------------------------------------
(* The start points of the strides                                         *)

\* the walk built on the list the kinematics writes (each tick reads the
\* positions the tick before commanded) or on a list of its own
InitStride == \E sh \in BOOLEAN : Start(Setup([i \in Legs |-> StandPose], sh))

NextStride == SetGait \/ WalkUpdate

SpecStride == InitStride /\ [][NextStride]_vars

\* C36: over an update tick, which calls get_gait_point once for every
\* leg, the cycle_start_point of a leg whose sub-state changes becomes the
\* position the leg had when the tick began, and the cycle_start_point of a
\* leg whose sub-state stays is left as it was.
C36_StartPointOnEntryOnly ==
    [][WalkTick =>
         \A i \in Legs :
            walking_state'.cycle_start_points[i] =
               IF walking_state'.leg_states[i] # walking_state.leg_states[i]
               THEN current_points[i]
               ELSE walking_state.cycle_start_points[i]]_vars

\* after an update some leg has kept its sub-state and its start point
\* while standing somewhere else, and another leg has entered Lifting
C36_Witness ==
    /\ call.op = "WalkingState.update"
    /\ call.exc = "None"
    /\ shared
    /\ \E i \in Legs :
          /\ walking_state.leg_states[i] = "Propelling"
          /\ walking_state.cycle_start_points[i] = StandPose
          /\ current_points[i] # StandPose
    /\ \E i \in Legs :
          /\ walking_state.leg_states[i] = "Lifting"
          /\ walking_state.cycle_start_points[i] # StandPose

-----------------------------------------------------------------------------
(* The derived offsets and the raw trims                                   *)

\* C37: after construction and after any sequence of set_raw_offsets,
\* adjust_offset, load_offsets and reset_offsets calls (and calibration
\* ticks), the derived offset vector of every leg is its three raw trims
\* plus the base offset; after reset_offsets every derived offset is the
\* base offset.
C37_DerivedIsRawPlusBase ==
    /\ kinematics.offsets = DerivedOffsets(kinematics.raw_offsets)
    /\ call.op = "CalibrationState.reset_offsets"
         => \A i \in Legs :
               kinematics.offsets[i] = Vector3(BASE_OFFSET.x, BASE_OFFSET.y, BASE_OFFSET.z)

\* an adjust_offset has moved a tibia trim of the last leg, clamped at -30,
\* on top of trims set before
C37_Witness ==
    /\ call.op = "CalibrationState.adjust_offset"
    /\ kinematics.raw_offsets[18] = -30
    /\ kinematics.raw_offsets[1] = 5
    /\ kinematics.offsets[5].z = BASE_OFFSET.z - 30
    /\ kinematics.offsets[0].x = BASE_OFFSET.x + 5

-----------------------------------------------------------------------------
(* What a True from the sleep controller means                             *)

\* SleepState.is_sleeping
is_sleeping == sleep_state.sleep_state = 3 /\ sleep_state.servos_detached

\* C38: whenever update() returns True the servos are detached and
\* is_sleeping() is True.
C38_TrueMeansAsleep ==
    (call.op = "SleepState.update" /\ call.ret = "True")
    => (~servo_controller.servos_attached /\ is_sleeping)

-----------------------------------------------------------------------------
(* save_offsets with a list of the wrong length                            *)

\* C39: save_offsets given a list whose length is not 18 returns False,
\* leaves the stored offsets as they were and does not write the file.
C39_WrongLengthRejected ==
    [][(call'.op = "HexapodStorage.save_offsets" /\ Len(call'.arg) # 18)
         => /\ call'.ret = "False"
            /\ call'.exc = "None"
            /\ storage' = storage
            /\ call'.writes = 0]_vars

\* a list of 16 was refused after a list of 18 had been stored and written
C39_Witness ==
    /\ call.op = "HexapodStorage.save_offsets"
    /\ Len(call.arg) = 16
    /\ call.ret = "False"
    /\ storage = [i \in 1 .. 18 |-> 5]

-----------------------------------------------------------------------------
(* The link after a loss of signal                                         *)

\* update() has declared the signal lost: the port is open (connect() set
\* connected with it) and connected is False
SignalLost == controller.receiver.serial /\ ~controller.receiver.connected

\* C40: a pass of the loop made after update() has declared signal loss by
\* timeout, while a channels frame is waiting on the port, reads and
\* processes the frame and sets connected again (of the passes after which
\* the loop goes on, which leave the receiver open).
C40_FrameRestoresLink ==
    [][(/\ SignalLost
        /\ call'.op = "HexapodController.loop"
        /\ call'.arg[1].kind = "frame"
        /\ ~controller'.exited)
         => /\ controller'.receiver.connected
            /\ controller'.receiver.gait_index = call'.arg[1].gait_index
            /\ controller'.receiver.sleep_mode = call'.arg[1].sleep_mode]_vars

====
